---------------------------- MODULE Spec2Model ----------------------------
(***************************************************************************)
(* A model of the domain decomposition and particle exchange of MP-Gadget  *)
(* (domain.c): the particle tables of every rank, the top-level tree, the  *)
(* splitter and assigner, the exchange rounds, the garbage collector and   *)
(* the particle fork.                                                      *)
(*                                                                         *)
(* Conventions.  C arrays are modelled as sequences; the code's 0-based    *)
(* index n is the sequence index n + 1 (operator At).  The base table P of *)
(* a rank is the sequence of its first NumPart entries: what lies beyond   *)
(* NumPart is never read by the code modelled here.  Collective phases     *)
(* (every rank runs the same code between two collectives and the result   *)
(* does not depend on the interleaving) are one action over all ranks.     *)
(* Floating point costs are integers.                                      *)
(***************************************************************************)
EXTENDS Integers, Sequences, FiniteSets, TLC

VARIABLES
    pc,             \* the phase the process group is in, or how it ended
    NTask,          \* number of ranks
    P,              \* P[r]: base particle table of rank r (NumPart entries)
    SphP,           \* SphP[r]: gas slots of rank r, SPHP(i) = SphP[i] (N_sph_slots entries)
    BhP,            \* BhP[r]: black-hole slots of rank r (N_bh_slots entries)
    NLocal,         \* NLocal[r][type], set by domain_count_particles
    topNodes,       \* the top-level tree (identical on all ranks after broadcast)
    NTopleaves,
    DomainTask,     \* DomainTask[leaf]: owning rank
    exchange_limit, \* exchange_limit[r]: FreeBytes minus bookkeeping, per rank
    toGo, toGoSph, toGoBh,   \* toGo[r][target]
    toGet, toGetSph, toGetBh, \* toGet[r][source]
    ret,            \* return value of domain_countToGo in the current round
    iter,           \* exchange rounds done
    P0,             \* history: the base tables when the operation started
    TopNodeAllocFactor, \* All.TopNodeAllocFactor, in units of 1 / FactorUnit
    MaxTopNodes,
    NTopnodes,
    OverDecomp,     \* All.DomainOverDecompositionFactor
    treeRet,        \* treeRet[r]: what domain_determineTopTree returned on rank r
    overflowStage,  \* history: the step of the tree build that ran out of nodes
    retries,        \* history: restarts of the loop of domain_Decomposition
    domainWork, domainCount,   \* per leaf, after domain_sumCost
    workLoad,       \* history: largest per-rank load of the work-balanced assignment
    loadLoad,       \* history: largest per-rank load of the load-balanced assignment
    usedLoadSplit,  \* history: the load-balanced split was run
    Nextnode,       \* the force tree's link list, << >> when no tree is allocated
    Father,
    ActiveParticle, \* the active particle list (NumActiveParticle entries)
    forkParent,     \* argument of the last domain_fork_particle, -1 before the first
    forkChild,      \* what the last domain_fork_particle returned
    threads,        \* threads[t]: a thread inside domain_fork_particle
    mrank,          \* mrank[r]: rank r inside domain_nonrecursively_combine_topTree
    chan,           \* the messages of MPI_Send that no MPI_Recv has taken yet
    contrib,        \* contrib[r]: what rank r has passed to the MPI_Allreduce calls
    bcastBuf,       \* what the root of MPI_Bcast has published
    eagerSend,      \* MPI_Send returns before the receive is posted (buffered mode)
    sendLog,        \* history: the sends done, as [src, dst, sep]
    gcP,            \* history: the base tables when the collection started
    DomainList,     \* DomainStartList / DomainEndList, as a sequence of [start, end]
    segTask,        \* domainAssign[n].task, in the order of DomainList
    prev,           \* history: the decomposition completed before this one
    heap,           \* the blocks of mymalloc that domain_allocate and domain_decompose
                    \* have made and that are not freed, in the order of allocation
    quasar          \* turn_on_quasars: ncand per rank, nqso, the random number drawn
                    \* for nqso, and new_qso per rank; << >> outside turn_on_quasars

DecompVars == <<TopNodeAllocFactor, MaxTopNodes, NTopnodes, OverDecomp, treeRet,
                overflowStage, retries, domainWork, domainCount, workLoad, loadLoad,
                usedLoadSplit, heap>>

ForkVars == <<Nextnode, Father, ActiveParticle, forkParent, forkChild>>

MergeVars == <<mrank, chan, contrib, bcastBuf, eagerSend, sendLog>>

\* the variables of the thread, merge, collection and split models
AuxVars == <<threads, MergeVars, gcP, DomainList, segTask, quasar>>

vars == <<pc, NTask, P, SphP, BhP, NLocal, topNodes, NTopleaves,
          DomainTask, exchange_limit, toGo, toGoSph, toGoBh, toGet, toGetSph,
          toGetBh, ret, iter, P0, DecompVars, ForkVars, AuxVars, prev>>

-----------------------------------------------------------------------------
(* Bounds of the model *)

\* most particles in the whole system at the start of an exchange
MaxTotPart == 5
\* All.MaxPart: capacity of a rank's base table (a configuration value)
MaxPart == 3
\* All.MaxPartBh: capacity of a rank's black-hole slot table
MaxPartBh == 2
\* sizeof(struct particle_data), sizeof(struct sph_particle_data),
\* sizeof(struct bh_particle_data), in abstract units
SizeofParticle == 2
SizeofSph == 3
SizeofBh == 1
\* number of ranks
NTaskModel == 2

-----------------------------------------------------------------------------
(* Helpers for C arrays *)

\* F applied to the value of v: v is evaluated once, however often F uses it
Strict(F(_), v) == CHOOSE y \in {F(x) : x \in {v}} : TRUE

At(s, n) == s[n + 1]
Upd(s, n, v) == [s EXCEPT ![n + 1] = v]
Front(s, k) == SubSeq(s, 1, k)
Ranks == 0 .. (NTask - 1)
RanksOf(nt) == 0 .. (nt - 1)
Zero(nt) == [t \in RanksOf(nt) |-> 0]

RECURSIVE SumTo(_, _)
SumTo(f, n) == IF n < 0 THEN 0 ELSE f[n] + SumTo(f, n - 1)
\* sum of f[0 .. NTask-1]
SumAll(f) == SumTo(f, NTask - 1)

RECURSIVE Concat(_, _, _)
\* f[from] \o f[from+1] \o ... \o f[NTask-1]
Concat(f, from, nt) == IF from >= nt THEN << >> ELSE f[from] \o Concat(f, from + 1, nt)

\* the three table sizes of rank r
NumPart(r) == Len(P[r])
N_sph_slots(r) == Len(SphP[r])
N_bh_slots(r) == Len(BhP[r])

-----------------------------------------------------------------------------
(* The layout function *)

\* a lookup that stops at the node it starts from
LeafDescend_Here(tree, no, key) == At(tree, no).Leaf

RECURSIVE LeafDescend(_, _, _)
LeafDescend(tree, no, key) ==
    IF At(tree, no).Daughter >= 0
    THEN LeafDescend(tree,
                     At(tree, no).Daughter
                       + ((key - At(tree, no).StartKey) \div (At(tree, no).Size \div 8)),
                     key)
    ELSE At(tree, no).Leaf

domain_leafnodefunc(key) == LeafDescend(topNodes, 0, key)

\* target rank of a particle record
domain_layoutfunc(p) == At(DomainTask, domain_leafnodefunc(p.Key))

-----------------------------------------------------------------------------
(* domain_exchange: flagging the particles that have to leave *)

\* the flagging loop of domain_exchange that marks no particle
FlagOne_Never(r, p) == [p EXCEPT !.WillExport = 0]

\* lines 383-390: OnAnotherDomain is set where the target is another rank
\* (and is never cleared here), WillExport is cleared
FlagOne(r, p) ==
    [p EXCEPT !.OnAnotherDomain = IF domain_layoutfunc(p) # r THEN 1 ELSE @,
              !.WillExport = 0]

\* a flagging loop that marks every particle for export
ExchangeFlag_All(r, Pr) ==
    [i \in 1 .. Len(Pr) |-> [Pr[i] EXCEPT !.OnAnotherDomain = 1, !.WillExport = 1]]

ExchangeFlag(r, Pr) == [i \in 1 .. Len(Pr) |-> FlagOne(r, Pr[i])]

\* sizeof of one particle with both auxiliary slots
package == SizeofParticle + SizeofSph + SizeofBh

-----------------------------------------------------------------------------
(* domain_countToGo: the first pass (lines 1071-1105) *)

RECURSIVE CountWalk(_, _, _)
\* st = [P, toGo, toGoSph, toGoBh, nlimit] of rank r, n the loop index
CountWalk(r, n, st) ==
    IF n >= Len(st.P) \/ package >= st.nlimit THEN st
    ELSE LET p == At(st.P, n)
             target == domain_layoutfunc(p)
         IN IF p.OnAnotherDomain = 0 \/ target = r
            THEN CountWalk(r, n + 1, st)
            ELSE Strict(LAMBDA st1 : CountWalk(r, n + 1, st1),
                   [P       |-> Upd(st.P, n, [p EXCEPT !.WillExport = 1]),
                    toGo    |-> [st.toGo EXCEPT ![target] = @ + 1],
                    toGoSph |-> [st.toGoSph EXCEPT ![target] = @ + (IF p.Type = 0 THEN 1 ELSE 0)],
                    toGoBh  |-> [st.toGoBh EXCEPT ![target] = @ + (IF p.Type = 5 THEN 1 ELSE 0)],
                    nlimit  |-> st.nlimit - SizeofParticle
                                  - (IF p.Type = 0 THEN SizeofSph ELSE 0)
                                  - (IF p.Type = 5 THEN SizeofBh ELSE 0)])

CountFirst(r) ==
    Strict(LAMBDA st : CountWalk(r, 0, st),
           [P |-> P[r], toGo |-> Zero(NTask), toGoSph |-> Zero(NTask),
            toGoBh |-> Zero(NTask), nlimit |-> exchange_limit[r]])

\* an exchange that leaves every rank with its own send counts
Alltoall_Own(m) == m

\* MPI_Alltoall of one int per rank: toGet[r][i] = toGo[i][r]
Alltoall(m) == [r \in Ranks |-> [i \in Ranks |-> m[i][r]]]

-----------------------------------------------------------------------------
(* domain_countToGo: the receive-side loop (lines 1133-1333) *)

RECURSIVE ShedRoundRobin(_, _, _)
\* while(ntoomany): col[i] is toGoX[ta] on rank i; rank i gives one up when it
\* has one, then the turn passes on.  With nothing left on any rank the loop
\* never ends.
ShedRoundRobin(col, i, ntoomany) ==
    IF ntoomany = 0 THEN [col |-> col, hang |-> FALSE]
    ELSE IF \A k \in Ranks : col[k] = 0 THEN [col |-> col, hang |-> TRUE]
    ELSE IF col[i] > 0
         THEN Strict(LAMBDA c : ShedRoundRobin(c, (i + 1) % NTask, ntoomany - 1),
                     [col EXCEPT ![i] = @ - 1])
         ELSE ShedRoundRobin(col, (i + 1) % NTask, ntoomany)

Column(m, ta) == [i \in Ranks |-> m[i][ta]]
SetColumn(m, ta, col) == [i \in Ranks |-> [m[i] EXCEPT ![ta] = col[i]]]

\* one of the three checks for rank ta: sheds ntoomany of m[.][ta] when positive
ShedCheck(m, ta, ntoomany, flagsum) ==
    IF ntoomany > 0
    THEN Strict(LAMBDA rr : [m |-> SetColumn(m, ta, rr.col), shed |-> ntoomany,
                             flag |-> 1, hang |-> rr.hang],
                Strict(LAMBDA c : ShedRoundRobin(c, flagsum % NTask, ntoomany), Column(m, ta)))
    ELSE [m |-> m, shed |-> 0, flag |-> 0, hang |-> FALSE]

\* the body of for(ta ...) for one ta (lines 1143-1256).  s holds the six
\* count matrices, all ranks' base tables, and flag, hang of the pass; the
\* toGet* of s are what the last MPI_Alltoall delivered
ShedOneTask(s, ta, flagsum) ==
    LET count_togo      == SumAll(s.toGo[ta])
        count_toget     == SumAll(s.toGet[ta])
        count_togo_sph  == SumAll(s.toGoSph[ta])
        count_toget_sph == SumAll(s.toGetSph[ta])
        count_togo_bh   == SumAll(s.toGoBh[ta])
        count_toget_bh  == SumAll(s.toGetBh[ta])
        Sph == ShedCheck(s.toGoSph, ta,
                 N_sph_slots(ta) + count_toget_sph - count_togo_sph - MaxPart, flagsum)
        Bh  == ShedCheck(s.toGoBh, ta,
                 N_bh_slots(ta) + count_toget_bh - count_togo_bh - MaxPartBh, flagsum)
        All(sph, bh) ==
               ShedCheck(s.toGo, ta,
                 NumPart(ta) + (count_toget - sph.shed - bh.shed) - count_togo - MaxPart,
                 flagsum)
        Result(sph, bh, all) ==
            IF sph.hang THEN [s EXCEPT !.hang = TRUE]
            ELSE IF bh.hang THEN [s EXCEPT !.hang = TRUE, !.toGoSph = sph.m]
            ELSE [s EXCEPT !.toGo = all.m, !.toGoSph = sph.m, !.toGoBh = bh.m,
                           !.flag = IF sph.flag + bh.flag + all.flag > 0 THEN 1 ELSE @,
                           !.hang = all.hang]
    IN Strict(LAMBDA sph :
         Strict(LAMBDA bh :
           Strict(LAMBDA all : Result(sph, bh, all), All(sph, bh)), Bh), Sph)

RECURSIVE ShedPass(_, _, _)
\* for(ta = 0; ta < NTask; ta++)
ShedPass(s, ta, flagsum) ==
    IF ta >= NTask \/ s.hang THEN s
    ELSE Strict(LAMBDA s1 : ShedPass(s1, ta + 1, flagsum), ShedOneTask(s, ta, flagsum))

\* if(flagsum > 100) endrun(1013, ...)
MaxFlagsum == 100

RECURSIVE ShedInner(_, _)
\* the inner do { ... } while(flag) (lines 1137-1264)
ShedInner(s, flagsum) ==
    LET After(s1) ==
          IF s1.hang THEN [s1 EXCEPT !.outcome = "hang"]
          ELSE IF flagsum + s1.flag > MaxFlagsum THEN [s1 EXCEPT !.outcome = "endrun_1013"]
          ELSE IF s1.flag = 1 THEN ShedInner(s1, flagsum + s1.flag)
          ELSE [s1 EXCEPT !.flagsum = flagsum + s1.flag]
    IN Strict(After, Strict(LAMBDA s0 : ShedPass(s0, 0, flagsum), [s EXCEPT !.flag = 0]))

RECURSIVE RecountWalk(_, _, _)
\* lines 1282-1316 on rank r: st = [P, toGo, toGoSph, toGoBh] with the local_
\* counters; lim* are the toGo* of rank r after shedding
RecountWalk(r, n, st) ==
    IF n >= Len(st.P) THEN st
    ELSE LET p == At(st.P, n)
             target == domain_layoutfunc(p)
             fits == st.toGo[target] < st.limGo[target]
                     /\ (p.Type = 0 => st.toGoSph[target] < st.limGoSph[target])
                     /\ (p.Type = 5 => st.toGoBh[target] < st.limGoBh[target])
         IN IF p.OnAnotherDomain = 0 THEN RecountWalk(r, n + 1, st)
            ELSE Strict(LAMBDA st1 : RecountWalk(r, n + 1, st1),
                   IF ~fits
                   THEN [st EXCEPT !.P = Upd(st.P, n, [p EXCEPT !.WillExport = 0])]
                   ELSE [st EXCEPT !.P = Upd(st.P, n, [p EXCEPT !.WillExport = 1]),
                                   !.toGo[target] = @ + 1,
                                   !.toGoSph[target] = @ + (IF p.Type = 0 THEN 1 ELSE 0),
                                   !.toGoBh[target] = @ + (IF p.Type = 5 THEN 1 ELSE 0)])

Recount(s) ==
    LET Walk(r) ==
          Strict(LAMBDA st : RecountWalk(r, 0, st),
                 [P |-> s.P[r], toGo |-> Zero(NTask), toGoSph |-> Zero(NTask),
                  toGoBh |-> Zero(NTask), limGo |-> s.toGo[r],
                  limGoSph |-> s.toGoSph[r], limGoBh |-> s.toGoBh[r]])
        Result(w) ==
          [s EXCEPT !.P = [r \in Ranks |-> w[r].P],
                    !.toGo = [r \in Ranks |-> w[r].toGo],
                    !.toGoSph = [r \in Ranks |-> w[r].toGoSph],
                    !.toGoBh = [r \in Ranks |-> w[r].toGoBh],
                    !.toGet = Alltoall([r \in Ranks |-> w[r].toGo]),
                    !.toGetSph = Alltoall([r \in Ranks |-> w[r].toGoSph]),
                    !.toGetBh = Alltoall([r \in Ranks |-> w[r].toGoBh])]
    IN Strict(Result, [r \in Ranks |-> Walk(r)])

RECURSIVE ShedOuter(_)
\* the outer do { ... } while(flagsum) (lines 1133-1333)
ShedOuter(s) ==
    LET After(s1) ==
          IF s1.outcome # "ok" THEN s1
          ELSE IF s1.flagsum # 0 THEN Strict(ShedOuter, Recount(s1))
          ELSE s1
    IN Strict(After, ShedInner(s, 0))

\* domain_countToGo on all ranks: the result of the whole call
domain_countToGo ==
    LET Start(first) ==
          [P |-> [r \in Ranks |-> first[r].P],
           toGo |-> [r \in Ranks |-> first[r].toGo],
           toGoSph |-> [r \in Ranks |-> first[r].toGoSph],
           toGoBh |-> [r \in Ranks |-> first[r].toGoBh],
           toGet |-> Alltoall([r \in Ranks |-> first[r].toGo]),
           toGetSph |-> Alltoall([r \in Ranks |-> first[r].toGoSph]),
           toGetBh |-> Alltoall([r \in Ranks |-> first[r].toGoBh]),
           flag |-> 0, hang |-> FALSE, flagsum |-> 0, outcome |-> "ok",
           ret |-> IF \E r \in Ranks : package >= first[r].nlimit THEN 1 ELSE 0]
        Finish(s0) ==
          IF s0.ret # 0 THEN ShedOuter(s0) ELSE s0
    IN IF \E r \in Ranks : package >= exchange_limit[r]
       THEN [outcome |-> "endrun_212"]
       ELSE Strict(Finish, Strict(Start, [r \in Ranks |-> CountFirst(r)]))

-----------------------------------------------------------------------------
(* domain_exchange_once *)

EmptyBufs == [t \in Ranks |-> << >>]

\* an entry that goes into the send buffer with its flags
Cleared_Not(p) == p

\* lines 553-554
Cleared(p) == [p EXCEPT !.OnAnotherDomain = 0, !.WillExport = 0]

RECURSIVE PackWalk(_, _, _)
\* lines 549-596 on rank r.  st = [P, SphP] being compacted and the send
\* buffers: partSph[t], sph[t] (gas base entries and their slots for rank t),
\* part[t] (other base entries), bh[t] (black-hole slots).  The code addresses
\* one flat buffer per kind through offset[t] + count[t]; the segments of
\* different targets are disjoint exactly when the counts agree with toGo*,
\* which PackCountsOk states.
PackWalk(r, n, st) ==
    IF n >= Len(st.P) THEN st
    ELSE LET p == At(st.P, n)
             np == Len(st.P)
             ns == Len(st.SphP)
             q == Cleared(p)
             target == domain_layoutfunc(q)
             P1 == Upd(st.P, n, At(st.P, ns - 1))
             P2 == Upd(P1, ns - 1, At(P1, np - 1))
             S1 == Upd(st.SphP, n, At(st.SphP, ns - 1))
         IN IF ~(p.OnAnotherDomain = 1 /\ p.WillExport = 1)
            THEN PackWalk(r, n + 1, st)
            ELSE Strict(LAMBDA st1 : PackWalk(r, n, st1),
                   IF q.Type = 0
                   THEN [st EXCEPT !.partSph[target] = Append(@, q),
                                   !.sph[target] = Append(@, At(st.SphP, n)),
                                   !.P = Front(P2, np - 1),
                                   !.SphP = Front(S1, ns - 1)]
                   ELSE IF q.Type = 5
                   THEN [st EXCEPT !.bh[target] = Append(@, At(BhP[r], q.PI)),
                                   !.part[target] = Append(@, [q EXCEPT !.PI = Len(st.bh[target])]),
                                   !.P = Front(Upd(st.P, n, At(st.P, np - 1)), np - 1)]
                   ELSE [st EXCEPT !.part[target] = Append(@, q),
                                   !.P = Front(Upd(st.P, n, At(st.P, np - 1)), np - 1)])

\* the packing loop that fills the buffers but leaves the tables as they were
Pack_LeaveCopy(r) ==
    [Strict(LAMBDA st : PackWalk(r, 0, st),
            [P |-> P[r], SphP |-> SphP[r], partSph |-> EmptyBufs,
             sph |-> EmptyBufs, part |-> EmptyBufs, bh |-> EmptyBufs])
     EXCEPT !.P = P[r], !.SphP = SphP[r]]

Pack(r) ==
    Strict(LAMBDA st : PackWalk(r, 0, st),
           [P |-> P[r], SphP |-> SphP[r], partSph |-> EmptyBufs,
            sph |-> EmptyBufs, part |-> EmptyBufs, bh |-> EmptyBufs])

\* lines 599-606: the counts the code compares after packing (else abort())
PackChecked(r, pk) ==
    \A t \in Ranks : Len(pk.partSph[t]) = toGoSph[r][t] /\ Len(pk.bh[t]) = toGoBh[r][t]

\* what the code does not compare: the non-gas count of every target.  When
\* it fails the segments of partBuf overlap or are sent partly unwritten.
PackCountsOk(r, pk) ==
    \A t \in Ranks : Len(pk.part[t]) = toGo[r][t] - toGoSph[r][t]

\* a receipt that leaves PI as the sender wrote it
LinkBh_Keep(recv, j) ==
    [seq |-> recv, j |-> j + Cardinality({i \in 1 .. Len(recv) : recv[i].Type = 5})]

RECURSIVE LinkBh(_, _)
\* lines 654-659: the received base entries of one source, type 5 entries get
\* consecutive slots from j on
LinkBh(recv, j) ==
    IF recv = << >> THEN [seq |-> << >>, j |-> j]
    ELSE LET p == Head(recv)
         IN Strict(LAMBDA rest :
                     [seq |-> <<IF p.Type = 5 THEN [p EXCEPT !.PI = j] ELSE p>> \o rest.seq,
                      j |-> rest.j],
                   LinkBh(Tail(recv), IF p.Type = 5 THEN j + 1 ELSE j))

\* offset_recv_bh that starts at slot 0 instead of N_bh_slots
OffsetRecvBh_NoSlots(r, src) == SumTo(toGetBh[r], src - 1)

\* lines 623-624: offset_recv_bh[src] on rank r
OffsetRecvBh(r, src) == N_bh_slots(r) + SumTo(toGetBh[r], src - 1)

\* the received non-gas entries of rank r from src, linked (or not, when no
\* black-hole slot arrives at all: line 651)
RecvLinked(r, src, pk) ==
    IF SumAll(toGetBh[r]) > 0
    THEN LinkBh(pk[src].part[r], OffsetRecvBh(r, src))
    ELSE [seq |-> pk[src].part[r], j |-> OffsetRecvBh(r, src) + toGetBh[r][src]]

\* line 660
BhLinkOk(r, pk) ==
    \A src \in Ranks : RecvLinked(r, src, pk).j = toGetBh[r][src] + OffsetRecvBh(r, src)

\* the base table that ignores what was received
NewP_KeepLocal(r, pk) == pk[r].P

\* lines 608-648: the tables of rank r after the four MPI_Alltoallv_sparse
\* calls: gas is received behind the local gas prefix, the local non-gas
\* entries are moved up by count_get_sph, everything else is received at the end
NewP(r, pk) ==
    LET ns == Len(pk[r].SphP)
    IN Front(pk[r].P, ns)
         \o Concat([src \in Ranks |-> pk[src].partSph[r]], 0, NTask)
         \o SubSeq(pk[r].P, ns + 1, Len(pk[r].P))
         \o Concat([src \in Ranks |-> RecvLinked(r, src, pk).seq], 0, NTask)

\* the gas slots without the received ones
NewSphP_Local(r, pk) == pk[r].SphP

NewSphP(r, pk) == pk[r].SphP \o Concat([src \in Ranks |-> pk[src].sph[r]], 0, NTask)

NewBhP(r, pk) == BhP[r] \o Concat([src \in Ranks |-> pk[src].bh[r]], 0, NTask)

\* every message has the length its receiver expects
CountsMatch(pk) ==
    \A r \in Ranks : \A src \in Ranks :
        /\ Len(pk[src].partSph[r]) = toGetSph[r][src]
        /\ Len(pk[src].part[r]) = toGet[r][src] - toGetSph[r][src]
        /\ Len(pk[src].bh[r]) = toGetBh[r][src]

-----------------------------------------------------------------------------
(* domain_count_particles *)

Types == 0 .. 5

CountType(Pr, t) == Cardinality({i \in 1 .. Len(Pr) : Pr[i].Type = t})

domain_count_particles(Pr) == [t \in Types |-> CountType(Pr, t)]

-----------------------------------------------------------------------------
(* The actions of domain_exchange *)

ExchangeVars == <<toGo, toGoSph, toGoBh, toGet, toGetSph, toGetBh, ret, iter>>
TreeVars == <<topNodes, NTopleaves, DomainTask>>

\* lines 375-392
ExchangeStart ==
    /\ pc = "exchange"
    /\ P' = [r \in Ranks |-> ExchangeFlag(r, P[r])]
    /\ iter' = 0
    /\ pc' = "countToGo"
    /\ UNCHANGED <<NTask, AuxVars, prev, ForkVars, DecompVars, SphP, BhP, NLocal, TreeVars, exchange_limit, toGo, toGoSph,
                   toGoBh, toGet, toGetSph, toGetBh, ret, P0>>

\* lines 399-408: the limit check and the call of domain_countToGo
CountToGo ==
    /\ pc = "countToGo"
    /\ IF \E r \in Ranks : exchange_limit[r] <= 0
       THEN /\ pc' = "endrun_1"
            /\ UNCHANGED <<P, toGo, toGoSph, toGoBh, toGet, toGetSph, toGetBh, ret>>
       ELSE \E c \in {domain_countToGo} :
              IF c.outcome = "endrun_212"
              THEN /\ pc' = "endrun_212"
                   /\ UNCHANGED <<P, toGo, toGoSph, toGoBh, toGet, toGetSph, toGetBh, ret>>
              ELSE /\ pc' = IF c.outcome = "ok" THEN "exchange_once" ELSE c.outcome
                   /\ P' = c.P
                   /\ toGo' = c.toGo
                   /\ toGoSph' = c.toGoSph
                   /\ toGoBh' = c.toGoBh
                   /\ toGet' = c.toGet
                   /\ toGetSph' = c.toGetSph
                   /\ toGetBh' = c.toGetBh
                   /\ ret' = c.ret
    /\ UNCHANGED <<NTask, AuxVars, prev, ForkVars, DecompVars, SphP, BhP, NLocal, TreeVars, exchange_limit, iter, P0>>

\* lines 417-420: domain_exchange_once on all ranks, then the loop test
ExchangeOnce ==
    /\ pc = "exchange_once"
    /\ \E pk \in {[r \in Ranks |-> Pack(r)]} :
         IF \E r \in Ranks : ~PackChecked(r, pk[r])
         THEN pc' = "abort" /\ UNCHANGED <<P, SphP, BhP>>
         ELSE IF (\E r \in Ranks : ~PackCountsOk(r, pk[r])) \/ ~CountsMatch(pk)
         THEN pc' = "undefined_buffers" /\ UNCHANGED <<P, SphP, BhP>>
         ELSE IF \E r \in Ranks : ~BhLinkOk(r, pk)
         THEN pc' = "endrun_1" /\ UNCHANGED <<P, SphP, BhP>>
         ELSE /\ P' = [r \in Ranks |-> NewP(r, pk)]
              /\ SphP' = [r \in Ranks |-> NewSphP(r, pk)]
              /\ BhP' = [r \in Ranks |-> NewBhP(r, pk)]
              /\ pc' = IF \E r \in Ranks : \/ Len(P'[r]) > MaxPart
                                           \/ Len(SphP'[r]) > MaxPart
                                           \/ Len(BhP'[r]) > MaxPartBh
                       THEN "endrun_787878"
                       ELSE IF ret > 0 THEN "countToGo" ELSE "count_particles"
    /\ iter' = iter + 1
    /\ UNCHANGED <<NTask, AuxVars, prev, ForkVars, DecompVars, NLocal, TreeVars, exchange_limit, toGo, toGoSph, toGoBh,
                   toGet, toGetSph, toGetBh, ret, P0>>

\* lines 422-431
ExchangeCount ==
    /\ pc = "count_particles"
    /\ NLocal' = [r \in Ranks |-> domain_count_particles(P[r])]
    /\ pc' = "exchange_done"
    /\ UNCHANGED <<NTask, AuxVars, prev, ForkVars, DecompVars, P, SphP, BhP, TreeVars, exchange_limit, ExchangeVars, P0>>

NextExchange == ExchangeStart \/ CountToGo \/ ExchangeOnce \/ ExchangeCount

-----------------------------------------------------------------------------
(* Initial states of an exchange: tables as the garbage collector leaves    *)
(* them, a tree of 8 leaves, any target rank for any particle               *)

SeqsUpTo(S, n) == UNION {[1 .. k -> S] : k \in 0 .. n}

\* a particle of a given type and key, with identifier id
NewParticle(id, type, key, pi) ==
    [ID |-> id, Type |-> type, Key |-> key, PI |-> pi, Mass |-> 1, Generation |-> 0,
     TimeBin |-> 1, GravCost |-> 0, OnAnotherDomain |-> 0, WillExport |-> 0]

\* gas entries first
GasFirst(kinds) ==
    \A i, j \in 1 .. Len(kinds) : (i < j /\ kinds[j][1] = 0) => kinds[i][1] = 0

NumOfType(kinds, t) == Cardinality({i \in 1 .. Len(kinds) : kinds[i][1] = t})

\* the base table built from a sequence of <<type, key>>: identifiers are
\* idbase + 1, idbase + 2, ...; the k-th black hole has slot k
TableOf(kinds, idbase) ==
    [i \in 1 .. Len(kinds) |->
        NewParticle(idbase + i, kinds[i][1], kinds[i][2],
                    IF kinds[i][1] = 5
                    THEN Cardinality({j \in 1 .. (i - 1) : kinds[j][1] = 5})
                    ELSE 0)]

SelectType(Pr, t) == SelectSeq(Pr, LAMBDA p : p.Type = t)

SphOf(Pr) == [i \in 1 .. Len(SelectType(Pr, 0)) |-> [ID |-> SelectType(Pr, 0)[i].ID]]
BhOf(Pr) == [i \in 1 .. Len(SelectType(Pr, 5)) |->
               [ID |-> SelectType(Pr, 5)[i].ID, ReverseLink |-> -1]]

\* a tree of the root and its 8 daughters over 8 key cells
Node(size, start, daughter, leaf, parent) ==
    [Size |-> size, StartKey |-> start, Count |-> 0, Daughter |-> daughter,
     Leaf |-> leaf, Parent |-> parent, PIndex |-> 0, Cost |-> 0]

EightLeaves == <<Node(8, 0, 1, 0, -1)>> \o [j \in 1 .. 8 |-> Node(1, j - 1, -1, j - 1, 0)]

ExchangeKinds == {0, 1, 5} \X RanksOf(NTaskModel)

BigLimit == package * (MaxPart + 1) + 1
LimitChoices == {package + 1, BigLimit}

\* no force tree, no fork yet
ForkIdle ==
    /\ Nextnode = << >> /\ Father = << >> /\ ActiveParticle = << >>
    /\ forkParent = -1 /\ forkChild = -1

\* no thread in the fork, no merge, no collection, no split under way
AuxIdle ==
    /\ threads = << >>
    /\ mrank = << >> /\ chan = {} /\ contrib = << >> /\ bcastBuf = << >>
    /\ eagerSend = FALSE /\ sendLog = {}
    /\ gcP = << >> /\ DomainList = << >> /\ segTask = << >>
    /\ quasar = << >>

\* mymalloc: one more live block
mymalloc(h, name) == Append(h, name)

\* myfree: the block of that name that was allocated last is no longer live
myfree(h, name) ==
    IF \E i \in 1 .. Len(h) : h[i] = name
    THEN LET k == CHOOSE i \in 1 .. Len(h) :
                     h[i] = name /\ \A j \in (i + 1) .. Len(h) : h[j] # name
         IN SubSeq(h, 1, k - 1) \o SubSeq(h, k + 1, Len(h))
    ELSE h

\* lines 191-199
domain_allocate(h) ==
    mymalloc(mymalloc(mymalloc(h, "DomainStartList"), "DomainEndList"), "TopNodes")

\* lines 209-218; domain_allocated_flag is set while TopNodes is live
domain_free(h) ==
    IF \E i \in 1 .. Len(h) : h[i] = "TopNodes"
    THEN myfree(myfree(myfree(h, "TopNodes"), "DomainEndList"), "DomainStartList")
    ELSE h

\* lines 268-276; mp (lines 1553, 1592), topNodes_import (lines 1492, 1512)
\* and the buffers of domain_sumCost and domain_exchange are freed by the
\* functions that allocate them
DecomposeBuffers(h) == mymalloc(mymalloc(mymalloc(h, "domainWork"), "domainCount"), "topNodes")

\* the variables of the decomposition driver, while it is not running
DecompIdle ==
    /\ TopNodeAllocFactor = 0 /\ MaxTopNodes = 0 /\ NTopnodes = 0 /\ OverDecomp = 1
    /\ treeRet = << >> /\ overflowStage = "" /\ retries = 0
    /\ domainWork = << >> /\ domainCount = << >>
    /\ workLoad = -1 /\ loadLoad = -1 /\ usedLoadSplit = FALSE

InitExchange ==
    /\ pc = "exchange"
    /\ NTask = NTaskModel
    /\ \E kinds \in [RanksOf(NTaskModel) -> SeqsUpTo(ExchangeKinds, MaxPart)] :
         /\ \A r \in RanksOf(NTaskModel) :
               GasFirst(kinds[r]) /\ NumOfType(kinds[r], 5) <= MaxPartBh
         /\ SumTo([r \in RanksOf(NTaskModel) |-> Len(kinds[r])], NTaskModel - 1) <= MaxTotPart
         \* the layout passed domain_check_memory_bound: no rank is assigned
         \* more than MaxPart particles
         /\ \A t \in RanksOf(NTaskModel) :
               SumTo([r \in RanksOf(NTaskModel) |->
                        Cardinality({i \in 1 .. Len(kinds[r]) : kinds[r][i][2] = t})],
                     NTaskModel - 1) <= MaxPart
         /\ P = [r \in RanksOf(NTaskModel) |-> TableOf(kinds[r], r * MaxPart)]
    /\ SphP = [r \in RanksOf(NTaskModel) |-> SphOf(P[r])]
    /\ BhP = [r \in RanksOf(NTaskModel) |-> BhOf(P[r])]
    /\ NLocal = [r \in RanksOf(NTaskModel) |-> domain_count_particles(P[r])]
    /\ topNodes = EightLeaves
    /\ NTopleaves = 8
    /\ DomainTask = [l \in 1 .. 8 |-> (l - 1) % NTaskModel]
    /\ exchange_limit \in [RanksOf(NTaskModel) -> LimitChoices]
    /\ toGo = [r \in RanksOf(NTaskModel) |-> Zero(NTaskModel)]
    /\ toGoSph = toGo /\ toGoBh = toGo /\ toGet = toGo /\ toGetSph = toGo /\ toGetBh = toGo
    /\ ret = 0
    /\ iter = 0
    /\ P0 = P
    /\ DecompIdle /\ heap = DecomposeBuffers(domain_allocate(<< >>))
    /\ ForkIdle
    /\ AuxIdle /\ prev = << >>

SpecExchange == InitExchange /\ [][NextExchange]_vars

-----------------------------------------------------------------------------
(* Properties of domain_exchange                                            *)

ExchangeDone == pc = "exchange_done"

\* number of entries over all ranks of a set of tables with identifier id
IdCount(tab, id) ==
    SumAll([r \in Ranks |-> Cardinality({i \in 1 .. Len(tab[r]) : tab[r][i].ID = id})])

AllIds(tab) == UNION {{tab[r][i].ID : i \in 1 .. Len(tab[r])} : r \in Ranks}

\* a particle of the tables tab sits on rank r
OnRank(tab, r, id) == \E i \in 1 .. Len(tab[r]) : tab[r][i].ID = id

\* some particle has changed rank
Moved(id) == \E r \in Ranks : OnRank(P0, r, id) /\ ~OnRank(P, r, id)

C2_IdMultiset ==
    \A id \in AllIds(P0) \cup AllIds(P) :
        IdCount(P, id) = IdCount(P0, id) /\ IdCount(P, id) = 1

\* C2 witness: after two rounds or more, two ranks have each sent a particle
\* to the other
C2_Witness ==
    /\ ExchangeDone
    /\ iter >= 2
    /\ \E a, b \in AllIds(P0) :
          /\ OnRank(P0, 0, a) /\ OnRank(P, 1, a)
          /\ OnRank(P0, 1, b) /\ OnRank(P, 0, b)

\* C3: when domain_exchange has returned, every particle of every rank has
\* that rank as the value of domain_layoutfunc
C3_Residence ==
    ExchangeDone =>
        \A r \in Ranks : \A i \in 1 .. Len(P[r]) : domain_layoutfunc(P[r][i]) = r

\* C3 witness: the exchange has returned and three particles or more, which
\* were on a rank that is not their target, have moved
C3_Witness ==
    /\ ExchangeDone
    /\ Cardinality({id \in AllIds(P0) : Moved(id)}) >= 3

C5_ShedExitsNormally == pc \notin {"hang", "endrun_1013"}

-----------------------------------------------------------------------------
(* The decomposition driver: parameters of the model                        *)

\* bits of a Peano key per octree level triple: PEANOCELLS = 8 ^ PeanoBits
PeanoBits == 2
PEANOCELLS == 8 ^ PeanoBits
\* TIMEBASE = 2 ^ TimeBins
TimeBins == 2
TIMEBASE == 2 ^ TimeBins
TOPNODEFACTOR == 1
\* All.TopNodeAllocFactor is held as a multiple of 1 / FactorUnit
FactorUnit == 10 ^ 5

-----------------------------------------------------------------------------
(* domain_Decomposition: the budget and its growth *)

\* line 189
MaxTopNodesOf(f) == (f * MaxPart) \div FactorUnit + 1

\* line 150
GrowFactor(f) == (f * 13) \div 10

\* a test that already fires above 0.001
FactorTooLarge_AboveThousandth(f) == f > FactorUnit \div 1000

\* line 154
FactorTooLarge(f) == f > 1000 * FactorUnit

\* an all-reduce that leaves every rank with its own contribution
MPI_Allreduce_Local(v, op) == v

\* MPI_Allreduce of one int per rank: the result on every rank
MPI_Allreduce(v, op) ==
    [r \in Ranks |->
        IF op = "SUM" THEN SumAll(v)
        ELSE IF \E q \in Ranks : v[q] # 0 THEN 1 ELSE 0]

-----------------------------------------------------------------------------
(* Costs *)

\* lines 220-226, in units of 1 / (PEANOCELLS * TIMEBASE)
domain_particle_costfactor(p) ==
    IF p.TimeBin # 0
    THEN ((1 + p.GravCost) * PEANOCELLS * TIMEBASE) \div (2 ^ p.TimeBin)
    ELSE (1 + p.GravCost) * PEANOCELLS

RECURSIVE SumSeq(_)
SumSeq(s) == IF s = << >> THEN 0 ELSE Head(s) + SumSeq(Tail(s))

\* lines 1569-1575: gravcost of one rank
GravCostOf(Pr) == SumSeq([i \in 1 .. Len(Pr) |-> domain_particle_costfactor(Pr[i])])

\* lines 1863-1866
TotNumPart == SumAll([r \in Ranks |-> NumPart(r)])

-----------------------------------------------------------------------------
(* domain_determineTopTree: the local tree *)

RECURSIVE InsertByKey(_, _)
InsertByKey(s, e) ==
    IF s = << >> THEN <<e>>
    ELSE IF e.key < Head(s).key THEN <<e>> \o s
    ELSE <<Head(s)>> \o InsertByKey(Tail(s), e)

RECURSIVE SortByKey(_, _)
\* lines 1555-1562: mp, sorted by key
SortByKey(Pr, n) ==
    IF n = 0 THEN << >>
    ELSE InsertByKey(SortByKey(Pr, n - 1), [key |-> Pr[n].Key, index |-> n - 1])

\* lines 1577-1584
RootNode(count, cost) ==
    [Size |-> PEANOCELLS, StartKey |-> 0, Count |-> count, Daughter |-> -1,
     Leaf |-> 0, Parent |-> -1, PIndex |-> 0, Cost |-> cost]

\* lines 1394-1413
OpenLocal(tree, i) ==
    Upd(tree, i, [At(tree, i) EXCEPT !.Daughter = Len(tree)])
      \o [j \in 1 .. 8 |->
            [Size |-> At(tree, i).Size \div 8,
             StartKey |-> At(tree, i).StartKey + (j - 1) * (At(tree, i).Size \div 8),
             Count |-> 0, Cost |-> 0, Daughter |-> -1, Parent |-> i,
             PIndex |-> At(tree, i).PIndex, Leaf |-> 0]]

RECURSIVE AdvanceDaughter(_, _, _, _, _)
\* lines 1424-1431
AdvanceDaughter(tree, sub, j, key, p) ==
    IF j < 7 /\ At(tree, sub + j + 1).StartKey <= key
    THEN AdvanceDaughter(Upd(tree, sub + j + 1, [At(tree, sub + j + 1) EXCEPT !.PIndex = p]),
                         sub, j + 1, key, p)
    ELSE [tree |-> tree, j |-> j]

RECURSIVE DistributeParticles(_, _, _, _, _)
\* lines 1416-1436
DistributeParticles(tree, i, ctx, p, j) ==
    IF p >= At(tree, i).Count THEN tree
    ELSE LET sub == At(tree, i).Daughter
             e == At(ctx.mp, p + At(tree, i).PIndex)
         IN Strict(LAMBDA a :
                     DistributeParticles(
                        Upd(a.tree, sub + a.j,
                            [At(a.tree, sub + a.j) EXCEPT
                                !.Cost = @ + domain_particle_costfactor(At(ctx.P, e.index)),
                                !.Count = @ + 1]),
                        i, ctx, p + 1, a.j),
                   AdvanceDaughter(tree, sub, j, e.key, p))

RECURSIVE domain_check_for_local_refine(_, _, _)
RECURSIVE RefineDaughters(_, _, _, _)

\* lines 1372-1448; st = [tree, err], NTopnodes = Len(st.tree)
domain_check_for_local_refine(st, i, ctx) ==
    IF At(st.tree, i).Size < 8 THEN st
    ELSE IF \/ At(st.tree, i).Parent < 0
            \/ /\ 10 * At(st.tree, i).Count <= 8 * At(st.tree, At(st.tree, i).Parent).Count
               /\ 10 * At(st.tree, i).Cost <= 8 * At(st.tree, At(st.tree, i).Parent).Cost
    THEN st
    ELSE IF Len(st.tree) + 8 > ctx.max THEN [st EXCEPT !.err = 1]
    ELSE Strict(LAMBDA t : RefineDaughters([st EXCEPT !.tree = t], i, 0, ctx),
                DistributeParticles(OpenLocal(st.tree, i), i, ctx, 0, 0))

\* lines 1438-1446
RefineDaughters(st, i, j, ctx) ==
    IF j >= 8 THEN st
    ELSE Strict(LAMBDA s1 : IF s1.err = 1 THEN s1 ELSE RefineDaughters(s1, i, j + 1, ctx),
                domain_check_for_local_refine(st, At(st.tree, i).Daughter + j, ctx))

\* lines 1553-1589 on rank r
LocalTree(r, max) ==
    domain_check_for_local_refine(
        [tree |-> <<RootNode(NumPart(r), GravCostOf(P[r]))>>, err |-> 0], 0,
        [mp |-> SortByKey(P[r], NumPart(r)), P |-> P[r], max |-> max])

-----------------------------------------------------------------------------
(* domain_nonrecursively_combine_topTree *)

RECURSIVE domain_add_cost(_, _, _, _)
RECURSIVE AddCostLoop(_, _, _, _, _)

\* an incoming leaf whose count stays at the node it meets
domain_add_cost_None(treeA, noA, count, cost) == treeA

\* lines 1728-1753
domain_add_cost(treeA, noA, count, cost) == AddCostLoop(treeA, noA, 0, count, cost)

\* lines 1738-1752
AddCostLoop(treeA, noA, i, count, cost) ==
    IF i >= 8 THEN treeA
    ELSE LET countB == count \div 8
             c == IF i = 0 THEN count - 7 * countB ELSE countB
             sub == At(treeA, noA).Daughter + i
         IN Strict(LAMBDA t1 :
                     Strict(LAMBDA t2 : AddCostLoop(t2, noA, i + 1, count, cost),
                            IF At(t1, sub).Daughter >= 0
                            THEN domain_add_cost(t1, sub, c, cost \div 8)
                            ELSE t1),
                   Upd(treeA, sub, [At(treeA, sub) EXCEPT !.Count = @ + c,
                                                          !.Cost = @ + (cost \div 8)]))

\* daughters two levels below the node that is opened
OpenMerge_Deep(treeA, noA, count, cost) ==
    Upd(treeA, noA, [At(treeA, noA) EXCEPT !.Daughter = Len(treeA)])
      \o [j \in 1 .. 8 |->
            [Size |-> At(treeA, noA).Size \div 64,
             StartKey |-> At(treeA, noA).StartKey + (j - 1) * (At(treeA, noA).Size \div 64),
             Count |-> count \div 8, Cost |-> cost \div 8,
             Daughter |-> -1, Parent |-> noA, PIndex |-> 0, Leaf |-> 0]]

\* lines 1768-1800: daughters of noA that share what noA holds beyond treeB's part
OpenMerge(treeA, noA, count, cost) ==
    Upd(treeA, noA, [At(treeA, noA) EXCEPT !.Daughter = Len(treeA)])
      \o [j \in 1 .. 8 |->
            [Size |-> At(treeA, noA).Size \div 8,
             StartKey |-> At(treeA, noA).StartKey + (j - 1) * (At(treeA, noA).Size \div 8),
             Count |-> IF j = 1 THEN count - 7 * (count \div 8) ELSE count \div 8,
             Cost |-> IF j = 1 THEN cost - 7 * (cost \div 8) ELSE cost \div 8,
             Daughter |-> -1, Parent |-> noA, PIndex |-> 0, Leaf |-> 0]]

\* an insertion that leaves the receiving tree as it was
domain_insertnode_Keep(st, treeB, noA, noB, max) == st

RECURSIVE domain_insertnode(_, _, _, _, _)
RECURSIVE InsertDaughters(_, _, _, _, _, _)

\* lines 1756-1828; st = [tree, fatal], treeA = st.tree
domain_insertnode(st, treeB, noA, noB, max) ==
    IF st.fatal # "" THEN st
    ELSE IF At(treeB, noB).Size < At(st.tree, noA).Size
    THEN IF At(st.tree, noA).Daughter < 0 /\ Len(st.tree) + 8 > max
         THEN [st EXCEPT !.fatal = "endrun_88"]
         ELSE Strict(LAMBDA t :
                       domain_insertnode(
                          [st EXCEPT !.tree = t], treeB,
                          At(t, noA).Daughter
                            + ((At(treeB, noB).StartKey - At(t, noA).StartKey)
                                  \div (At(t, noA).Size \div 8)),
                          noB, max),
                     IF At(st.tree, noA).Daughter < 0
                     THEN OpenMerge(st.tree, noA,
                                    At(st.tree, noA).Count
                                      - At(treeB, At(treeB, noB).Parent).Count,
                                    At(st.tree, noA).Cost
                                      - At(treeB, At(treeB, noB).Parent).Cost)
                     ELSE st.tree)
    ELSE IF At(treeB, noB).Size = At(st.tree, noA).Size
    THEN Strict(LAMBDA t1 :
                  IF At(treeB, noB).Daughter >= 0
                  THEN InsertDaughters([st EXCEPT !.tree = t1], treeB, noA, noB, 0, max)
                  ELSE IF At(t1, noA).Daughter >= 0
                  THEN [st EXCEPT !.tree = domain_add_cost(t1, noA, At(treeB, noB).Count,
                                                           At(treeB, noB).Cost)]
                  ELSE [st EXCEPT !.tree = t1],
                Upd(st.tree, noA, [At(st.tree, noA) EXCEPT
                                      !.Count = @ + At(treeB, noB).Count,
                                      !.Cost = @ + At(treeB, noB).Cost]))
    ELSE [st EXCEPT !.fatal = "endrun_89"]

\* lines 1813-1817
InsertDaughters(st, treeB, noA, noB, j, max) ==
    IF j >= 8 THEN st
    ELSE Strict(LAMBDA s1 : InsertDaughters(s1, treeB, noA, noB, j + 1, max),
                domain_insertnode(st, treeB, noA, At(treeB, noB).Daughter + j, max))

\* lines 1471-1526: one round on rank r; st[q] = [tree, n, errorflag, fatal]
CombineStep(st, r, sep, max) ==
    IF r % sep # 0 THEN st[r]
    ELSE IF (r \div sep) % 2 = 0
    THEN IF r + sep < NTask
         THEN IF st[r].n + st[r + sep].n > max THEN [st[r] EXCEPT !.errorflag = 1]
              ELSE IF st[r + sep].n < 0 THEN [st[r] EXCEPT !.fatal = "endrun_1"]
              ELSE IF st[r + sep].n > 0
              THEN Strict(LAMBDA s : [st[r] EXCEPT !.tree = s.tree, !.n = Len(s.tree),
                                                   !.fatal = s.fatal],
                          domain_insertnode([tree |-> st[r].tree, fatal |-> ""],
                                            Front(st[r + sep].tree, st[r + sep].n), 0, 0, max))
              ELSE st[r]
         ELSE st[r]
    ELSE [st[r] EXCEPT !.n = -1]

RECURSIVE CombineRounds(_, _, _)
\* lines 1469-1533: the rounds; all[r] is errorflagall on rank r
CombineRounds(st, sep, max) ==
    IF sep >= NTask THEN [st |-> st, all |-> Zero(NTask)]
    ELSE Strict(LAMBDA s1 :
                  Strict(LAMBDA all :
                           IF \E r \in Ranks : all[r] # 0 \/ s1[r].fatal # ""
                           THEN [st |-> s1, all |-> all]
                           ELSE CombineRounds(s1, 2 * sep, max),
                         MPI_Allreduce([r \in Ranks |-> s1[r].errorflag], "LOR")),
                [r \in Ranks |-> CombineStep(st, r, sep, max)])

\* lines 1450-1539: the tree of rank 0 is broadcast
domain_nonrecursively_combine_topTree(local, max) ==
    Strict(LAMBDA c :
             [tree |-> Front(c.st[0].tree, c.st[0].n),
              ret |-> c.all,
              fatal |-> IF \E r \in Ranks : c.st[r].fatal # ""
                        THEN (CHOOSE f \in {c.st[r].fatal : r \in Ranks} : f # "")
                        ELSE ""],
           CombineRounds([r \in Ranks |-> [tree |-> local[r].tree, n |-> Len(local[r].tree),
                                           errorflag |-> 0, fatal |-> ""]],
                         1, max))

-----------------------------------------------------------------------------
(* domain_determineTopTree: adaptation after the merge *)

\* lines 1644-1656
OpenAdapt(tree, i) ==
    Upd(tree, i, [At(tree, i) EXCEPT !.Daughter = Len(tree)])
      \o [j \in 1 .. 8 |->
            [Size |-> At(tree, i).Size \div 8,
             StartKey |-> At(tree, i).StartKey + (j - 1) * (At(tree, i).Size \div 8),
             Count |-> At(tree, i).Count \div 8, Cost |-> At(tree, i).Cost \div 8,
             Daughter |-> -1, Parent |-> i, PIndex |-> 0, Leaf |-> 0]]

\* a loop that divides nothing
AdaptLoop_Stop(st, i, lim) == st

RECURSIVE AdaptLoop(_, _, _)
\* lines 1636-1665; lim = [max, q, totcount, totcost] with
\* countlimit = totcount / q and costlimit = totcost / q
AdaptLoop(st, i, lim) ==
    IF i >= Len(st.tree) THEN st
    ELSE IF /\ At(st.tree, i).Daughter < 0
            /\ \/ At(st.tree, i).Count * lim.q > lim.totcount
               \/ At(st.tree, i).Cost * lim.q > lim.totcost
            /\ At(st.tree, i).Size > 1
    THEN IF Len(st.tree) + 8 <= lim.max
         THEN Strict(LAMBDA t : AdaptLoop([st EXCEPT !.tree = t], i + 1, lim),
                     OpenAdapt(st.tree, i))
         ELSE [st EXCEPT !.err = 1]
    ELSE AdaptLoop(st, i + 1, lim)

\* the first non-zero of the three all-reduced flags, per rank
FirstNonZero(a, b, c) ==
    [r \in Ranks |-> IF a[r] # 0 THEN a[r] ELSE IF b[r] # 0 THEN b[r] ELSE c[r]]

\* lines 1547-1675 on all ranks: the tree, the value returned on every rank,
\* and the step that ran out of nodes
domain_determineTopTree(max, od) ==
    Strict(LAMBDA local :
      Strict(LAMBDA e1 :
        IF \A r \in Ranks : e1[r] # 0
        THEN [tree |-> local[0].tree, ret |-> e1, stage |-> "local", fatal |-> ""]
        ELSE
        Strict(LAMBDA m :
          Strict(LAMBDA e2 :
            IF m.fatal # "" \/ \A r \in Ranks : e2[r] # 0
            THEN [tree |-> m.tree, ret |-> FirstNonZero(e1, e2, e2),
                  stage |-> "merge", fatal |-> m.fatal]
            ELSE
            Strict(LAMBDA a :
              Strict(LAMBDA e3 :
                [tree |-> a.tree, ret |-> FirstNonZero(e1, e2, e3),
                 stage |-> IF \E r \in Ranks : e1[r] # 0 THEN "local"
                           ELSE IF \E r \in Ranks : e2[r] # 0 THEN "merge"
                           ELSE IF \E r \in Ranks : e3[r] # 0 THEN "adapt" ELSE "",
                 fatal |-> ""],
                MPI_Allreduce([r \in Ranks |-> a.err], "SUM")),
              AdaptLoop([tree |-> m.tree, err |-> 0], 0,
                        [max |-> max, q |-> TOPNODEFACTOR * od * NTask,
                         totcount |-> TotNumPart,
                         totcost |-> SumAll([r \in Ranks |-> GravCostOf(P[r])])])),
            MPI_Allreduce(m.ret, "SUM")),
          domain_nonrecursively_combine_topTree(local, max)),
        MPI_Allreduce([r \in Ranks |-> local[r].err], "SUM")),
      [r \in Ranks |-> LocalTree(r, max)])

-----------------------------------------------------------------------------
(* domain_sumCost *)

RECURSIVE domain_walktoptree(_, _)
RECURSIVE WalkDaughters(_, _, _)

\* lines 1350-1364; st = [tree, NTopleaves]
domain_walktoptree(st, no) ==
    IF At(st.tree, no).Daughter = -1
    THEN [tree |-> Upd(st.tree, no, [At(st.tree, no) EXCEPT !.Leaf = st.NTopleaves]),
          NTopleaves |-> st.NTopleaves + 1]
    ELSE WalkDaughters(st, no, 0)

\* a walk that visits the last daughter only
WalkDaughters_Last(st, no, i) == domain_walktoptree(st, At(st.tree, no).Daughter + 7)

WalkDaughters(st, no, i) ==
    IF i >= 8 THEN st
    ELSE Strict(LAMBDA s1 : WalkDaughters(s1, no, i + 1),
                domain_walktoptree(st, At(st.tree, no).Daughter + i))

\* lines 1697-1708 on rank r, for leaf no
LocalLeafSum(tree, r, no, work) ==
    SumSeq([i \in 1 .. NumPart(r) |->
              IF LeafDescend(tree, 0, P[r][i].Key) = no
              THEN (IF work THEN domain_particle_costfactor(P[r][i]) ELSE 1)
              ELSE 0])

\* lines 1679-1726
domain_sumCost(tree) ==
    Strict(LAMBDA w :
             [tree |-> w.tree, NTopleaves |-> w.NTopleaves,
              domainWork |-> [l \in 1 .. w.NTopleaves |->
                                SumAll([r \in Ranks |-> LocalLeafSum(w.tree, r, l - 1, TRUE)])],
              domainCount |-> [l \in 1 .. w.NTopleaves |->
                                SumAll([r \in Ranks |-> LocalLeafSum(w.tree, r, l - 1, FALSE)])]],
           domain_walktoptree([tree |-> tree, NTopleaves |-> 0], 0))

-----------------------------------------------------------------------------
(* The split of the leaves into segments *)

RECURSIVE SplitExtend_NoGuard(_, _, _, _, _, _, _)
\* a segment that grows without leaving a leaf for each of the later segments
SplitExtend_NoGuard(arr, ncpu, ndomain, i, end, work, before) ==
    IF \/ ncpu * (work + before) < (i + 1) * SumSeq(arr)
       \/ (i = ncpu - 1 /\ end < ndomain - 1)
    THEN SplitExtend_NoGuard(arr, ncpu, ndomain, i, end + 1, work + At(arr, end + 1), before)
    ELSE [end |-> end, work |-> work]

RECURSIVE SplitExtend(_, _, _, _, _, _, _)
\* the while loop of lines 973-981 (1013-1021): the end of segment i and what it holds;
\* total / ncpu is the average, so the test is multiplied through by ncpu
SplitExtend(arr, ncpu, ndomain, i, end, work, before) ==
    IF /\ \/ ncpu * (work + before) < (i + 1) * SumSeq(arr)
          \/ (i = ncpu - 1 /\ end < ndomain - 1)
       /\ ndomain - end > ncpu - i
    THEN SplitExtend(arr, ncpu, ndomain, i, end + 1, work + At(arr, end + 1), before)
    ELSE [end |-> end, work |-> work]

RECURSIVE FindSplit(_, _, _, _, _, _)
\* lines 957-995 and 997-1035: DomainStartList / DomainEndList
FindSplit(arr, ncpu, ndomain, i, start, before) ==
    IF i >= ncpu THEN << >>
    ELSE IF start >= ndomain THEN << >>   \* the read of arr[start] is out of bounds
    ELSE Strict(LAMBDA s :
                  <<[start |-> start, end |-> s.end]>>
                     \o FindSplit(arr, ncpu, ndomain, i + 1, s.end + 1, before + s.work),
                SplitExtend(arr, ncpu, ndomain, i, start, At(arr, start), before))

domain_findSplit_work_balanced(ncpu, ndomain, work) == FindSplit(work, ncpu, ndomain, 0, 0, 0)

domain_findSplit_load_balanced(ncpu, ndomain, count) == FindSplit(count, ncpu, ndomain, 0, 0, 0)

-----------------------------------------------------------------------------
(* domain_assign_balanced *)

\* an entry of target[] that was never written
Unset == -1

RECURSIVE SortedOrders(_, _, _)
\* the orders qsort can leave the elements of S in: non-decreasing in key, any
\* order among equal keys; of the orders that differ only by swapping elements
\* of equal key and equal cls, one is kept
SortedOrders(S, key, cls) ==
    IF S = {} THEN {<< >>}
    ELSE UNION {{<<x>> \o rest : rest \in SortedOrders(S \ {x}, key, cls)} :
                   x \in {x \in S : /\ \A y \in S : key[x] <= key[y]
                                    /\ \A y \in S : (key[y] = key[x] /\ cls[y] = cls[x])
                                                        => x <= y}}

\* what segment n holds
SegLoad(arr, lists, n) ==
    SumSeq([k \in 1 .. (At(lists, n).end - At(lists, n).start + 1) |->
              At(arr, At(lists, n).start + k - 1)])

\* lines 909-916: the load of domain d
DomainLoad(arr, lists, task, d) ==
    SumSeq([n \in 1 .. Len(lists) |-> IF task[n] = d THEN SegLoad(arr, lists, n - 1) ELSE 0])

\* lines 920-924: target[] after the pairing over the sorted domains d
PairTargets(target, d, ndomains) ==
    [o \in DOMAIN target |->
        IF \E i \in 0 .. (ndomains \div 2 - 1) :
              At(d, i) = o \/ At(d, ndomains - 1 - i) = o
        THEN CHOOSE i \in 0 .. (ndomains \div 2 - 1) :
                At(d, i) = o \/ At(d, ndomains - 1 - i) = o
        ELSE target[o]]

RECURSIVE AssignRounds(_, _, _, _)
\* lines 901-930; S is a set of [task, target], one for every order qsort
\* can produce; task[n + 1] is domainAssign[n].task, target[o] is target[o]
AssignRounds(S, ndomains, arr, lists) ==
    IF ndomains <= NTask THEN {s.task : s \in S}
    ELSE AssignRounds(
            UNION {{LET t == PairTargets(s.target, d, ndomains)
                    IN [task |-> [n \in 1 .. Len(lists) |->
                                    IF s.task[n] \in 0 .. (Len(lists) - 1)
                                    THEN t[s.task[n]] ELSE Unset],
                        target |-> t] :
                     d \in SortedOrders(0 .. (ndomains - 1),
                                        [x \in 0 .. (ndomains - 1) |->
                                            DomainLoad(arr, lists, s.task, x)],
                                        [x \in 0 .. (ndomains - 1) |-> x])} :
                   s \in S},
            ndomains \div 2, arr, lists)

\* lines 884-930: the values domainAssign[n].task can end with
domain_assign_balanced(arr, lists) ==
    AssignRounds({[task |-> [n \in 1 .. Len(lists) |-> n - 1],
                   target |-> [o \in 0 .. (Len(lists) - 1) |-> Unset]]},
                 Len(lists), arr, lists)

\* lines 932-948: the lists in the order ord, and DomainTask
SortedLists(lists, ord) == [k \in 1 .. Len(lists) |-> At(lists, ord[k])]

DomainTaskOf(lists, task, nleaves) ==
    [l \in 1 .. nleaves |->
        IF \E n \in 1 .. Len(lists) : lists[n].start <= l - 1 /\ l - 1 <= lists[n].end
        THEN task[CHOOSE n \in 1 .. Len(lists) : lists[n].start <= l - 1 /\ l - 1 <= lists[n].end]
        ELSE Unset]

\* lines 446-470: the load of rank ta, read from the positions of the lists
CheckedLoad(lists, count, od, ta) ==
    SumSeq([m \in 1 .. od |-> SegLoad(count, lists, ta * od + m - 1)])

\* lines 434-493
domain_check_memory_bound(lists, count, od) ==
    IF \E ta \in Ranks : CheckedLoad(lists, count, od, ta) > MaxPart THEN 1 ELSE 0

\* split, assignment and check: every [DomainTask, status] the library sort
\* allows; the check reads the particle counts of the segments only, so the
\* orders of lines 939 that swap segments of equal task and equal count are one
SplitOutcomes(arr, lists, count, od, nleaves) ==
    UNION {{[DomainTask |-> DomainTaskOf(lists, task, nleaves),
             status |-> domain_check_memory_bound(SortedLists(lists, ord), count, od)] :
               ord \in SortedOrders(0 .. (Len(lists) - 1),
                                    [n \in 0 .. (Len(lists) - 1) |-> task[n + 1]],
                                    [n \in 0 .. (Len(lists) - 1) |->
                                        SegLoad(count, lists, n)])} :
             task \in domain_assign_balanced(arr, lists)}

-----------------------------------------------------------------------------
(* The actions of domain_Decomposition *)

SplitVars == <<domainWork, domainCount, workLoad, loadLoad, usedLoadSplit>>
TableVars == <<P, SphP, BhP, NLocal, P0>>

\* lines 141-144 with domain_decompose up to line 293
TopTree ==
    /\ pc = "allocate"
    /\ MaxTopNodes' = MaxTopNodesOf(TopNodeAllocFactor)
    /\ \E t \in {domain_determineTopTree(MaxTopNodesOf(TopNodeAllocFactor), OverDecomp)} :
         /\ topNodes' = t.tree
         /\ NTopnodes' = Len(t.tree)
         /\ treeRet' = t.ret
         /\ overflowStage' = t.stage
         /\ heap' = DecomposeBuffers(domain_allocate(heap))
         /\ \E retsum \in {MPI_Allreduce([r \in Ranks |-> IF t.ret[r] # 0 THEN 1 ELSE 0], "SUM")} :
              pc' = IF t.fatal # "" THEN t.fatal
                    ELSE IF \A r \in Ranks : retsum[r] # 0 /\ t.ret[r] # 0 THEN "retry"
                    ELSE IF \A r \in Ranks : retsum[r] = 0 /\ t.ret[r] = 0 THEN "split"
                    ELSE "diverged"
    /\ UNCHANGED <<NTask, AuxVars, prev, ForkVars, TableVars, NTopleaves, DomainTask, exchange_limit, ExchangeVars,
                   TopNodeAllocFactor, OverDecomp, retries, SplitVars>>

\* lines 145-159
Retry ==
    /\ pc = "retry"
    /\ TopNodeAllocFactor' = GrowFactor(TopNodeAllocFactor)
    /\ retries' = retries + 1
    /\ heap' = domain_free(heap)
    /\ pc' = IF FactorTooLarge(GrowFactor(TopNodeAllocFactor)) THEN "endrun_781" ELSE "allocate"
    /\ topNodes' = << >>
    /\ NTopnodes' = 0
    /\ UNCHANGED <<NTask, AuxVars, prev, ForkVars, TableVars, NTopleaves, DomainTask, exchange_limit, ExchangeVars,
                   MaxTopNodes, OverDecomp, treeRet, overflowStage, SplitVars>>

\* where the exchange starts: a leaf owner outside [0, NTask) indexes toGo out of bounds
ExchangeEntry(tree, task) ==
    IF \A r \in Ranks : \A i \in 1 .. NumPart(r) :
          At(task, LeafDescend(tree, 0, P[r][i].Key)) \in Ranks
    THEN "exchange" ELSE "undefined_rank"

\* the particles on the leaves that task gives to owner t
OwnerLoad(task, count, t) ==
    SumSeq([l \in 1 .. Len(task) |-> IF task[l] = t THEN count[l] ELSE 0])

\* the largest number of particles an assignment gives to one owner
MaxOwnerLoad(task, count) ==
    CHOOSE m \in {OwnerLoad(task, count, task[l]) : l \in 1 .. Len(task)} :
        \A l \in 1 .. Len(task) : OwnerLoad(task, count, task[l]) <= m

\* lines 294-334
DomainSplit ==
    /\ pc = "split"
    /\ \E sc \in {domain_sumCost(topNodes)} :
         /\ topNodes' = sc.tree
         /\ NTopleaves' = sc.NTopleaves
         /\ domainWork' = sc.domainWork
         /\ domainCount' = sc.domainCount
         /\ IF sc.NTopleaves < OverDecomp * NTask
            THEN /\ pc' = "endrun_112"
                 /\ UNCHANGED <<DomainTask, workLoad, loadLoad, usedLoadSplit>>
            ELSE \E ws \in {SplitOutcomes(sc.domainWork,
                                          domain_findSplit_work_balanced(OverDecomp * NTask,
                                                                         sc.NTopleaves,
                                                                         sc.domainWork),
                                          sc.domainCount, OverDecomp, sc.NTopleaves)} :
                 \E ls \in {IF \E w \in ws : w.status # 0
                            THEN SplitOutcomes(sc.domainCount,
                                               domain_findSplit_load_balanced(
                                                   OverDecomp * NTask, sc.NTopleaves,
                                                   sc.domainCount),
                                               sc.domainCount, OverDecomp, sc.NTopleaves)
                            ELSE {}} :
                 \* a work-balanced assignment that fails the check is overwritten
                 \* by the load-balanced one: only its largest load is recorded
                 \E w \in {[status |-> x.status,
                            load |-> MaxOwnerLoad(x.DomainTask, sc.domainCount),
                            DomainTask |-> IF x.status = 0 THEN x.DomainTask ELSE << >>] :
                              x \in ws} :
                   /\ workLoad' = w.load
                   /\ IF w.status = 0
                      THEN /\ usedLoadSplit' = FALSE
                           /\ loadLoad' = -1
                           /\ DomainTask' = w.DomainTask
                           /\ pc' = ExchangeEntry(sc.tree, w.DomainTask)
                      ELSE \E l \in ls :
                             /\ usedLoadSplit' = TRUE
                             /\ loadLoad' = MaxOwnerLoad(l.DomainTask, sc.domainCount)
                             /\ DomainTask' = l.DomainTask
                             /\ pc' = IF l.status # 0 THEN "endrun_0"
                                      ELSE ExchangeEntry(sc.tree, l.DomainTask)
    /\ UNCHANGED <<NTask, AuxVars, prev, ForkVars, TableVars, exchange_limit, ExchangeVars, TopNodeAllocFactor,
                   MaxTopNodes, NTopnodes, OverDecomp, treeRet, overflowStage, retries, heap>>

\* lines 336-349 and 163-181: the attempt returned 0 on every rank
DecompositionDone ==
    /\ pc = "exchange_done"
    /\ pc' = "done"
    /\ heap' = myfree(myfree(myfree(heap, "topNodes"), "domainCount"), "domainWork")
    /\ UNCHANGED <<NTask, AuxVars, prev, ForkVars, TableVars, TreeVars, exchange_limit, ExchangeVars,
                   TopNodeAllocFactor, MaxTopNodes, NTopnodes, OverDecomp, treeRet,
                   overflowStage, retries, SplitVars>>

NextDecomp == TopTree \/ Retry \/ DomainSplit \/ NextExchange \/ DecompositionDone

-----------------------------------------------------------------------------
(* Initial states of a decomposition: dark matter on every rank, keys in   *)
(* three cells, two gravity costs, no tree yet                              *)

\* <<key, GravCost>>
DecompKinds == {<<0, 0>>, <<0, 3>>, <<PEANOCELLS \div 8, 0>>, <<PEANOCELLS - 1, 0>>}

KindRank(k) == k[1] * 4 + k[2]

\* <<All.TopNodeAllocFactor, All.DomainOverDecompositionFactor>>: 0.001 and 3.0,
\* over-decomposition 1 to 3
ConfigChoices == {<<FactorUnit \div 1000, 1>>, <<3 * FactorUnit, 1>>,
                  <<3 * FactorUnit, 2>>, <<3 * FactorUnit, 3>>}

DecompTable(kinds, idbase) ==
    [i \in 1 .. Len(kinds) |->
        [NewParticle(idbase + i, 1, kinds[i][1], 0) EXCEPT !.GravCost = kinds[i][2]]]

InitDecomp ==
    /\ pc = "allocate"
    /\ NTask = NTaskModel
    /\ \E kinds \in [RanksOf(NTaskModel) -> SeqsUpTo(DecompKinds, MaxPart)] :
         /\ \A r \in RanksOf(NTaskModel) : \A i, j \in 1 .. Len(kinds[r]) :
               i < j => KindRank(kinds[r][i]) <= KindRank(kinds[r][j])
         /\ SumTo([r \in RanksOf(NTaskModel) |-> Len(kinds[r])], NTaskModel - 1) <= MaxTotPart
         /\ P = [r \in RanksOf(NTaskModel) |-> DecompTable(kinds[r], r * MaxPart)]
    /\ SphP = [r \in RanksOf(NTaskModel) |-> << >>]
    /\ BhP = [r \in RanksOf(NTaskModel) |-> << >>]
    /\ NLocal = [r \in RanksOf(NTaskModel) |-> domain_count_particles(P[r])]
    /\ topNodes = << >>
    /\ NTopleaves = 0
    /\ DomainTask = << >>
    /\ exchange_limit = [r \in RanksOf(NTaskModel) |-> BigLimit]
    /\ toGo = [r \in RanksOf(NTaskModel) |-> Zero(NTaskModel)]
    /\ toGoSph = toGo /\ toGoBh = toGo /\ toGet = toGo /\ toGetSph = toGo /\ toGetBh = toGo
    /\ ret = 0
    /\ iter = 0
    /\ P0 = P
    /\ \E c \in ConfigChoices : TopNodeAllocFactor = c[1] /\ OverDecomp = c[2]
    /\ MaxTopNodes = 0 /\ NTopnodes = 0
    /\ treeRet = << >> /\ overflowStage = "" /\ retries = 0 /\ heap = << >>
    /\ domainWork = << >> /\ domainCount = << >>
    /\ workLoad = -1 /\ loadLoad = -1 /\ usedLoadSplit = FALSE
    /\ ForkIdle
    /\ AuxIdle /\ prev = << >>

SpecDecomp == InitDecomp /\ [][NextDecomp]_vars

-----------------------------------------------------------------------------
(* Properties of the decomposition driver                                   *)

\* the attempt got past the tree build on every rank
PastTreeBuild == pc \notin {"allocate", "retry", "endrun_781", "diverged"}

\* C6: when the tree build reports an overflow (local refinement, merge or
\* adaptation) every rank takes the same decision: all of them discard the
\* attempt, the factor is multiplied by 1.3 and the decomposition restarts
\* with the particle tables untouched; an attempt whose tree fits goes on to
\* the split at once, with a return value of 0 on every rank and a tree within
\* the budget; no rank splits or exchanges while another one retries
C6_UniformRetry ==
    /\ [](/\ pc # "diverged"
          /\ pc = "retry" =>
                /\ \A r \in Ranks : treeRet[r] # 0
                /\ overflowStage \in {"local", "merge", "adapt"}
          /\ PastTreeBuild =>
                /\ \A r \in Ranks : treeRet[r] = 0
                /\ overflowStage = ""
                /\ NTopnodes <= MaxTopNodes)
    /\ [][/\ pc = "retry" =>
                /\ TopNodeAllocFactor' = (13 * TopNodeAllocFactor) \div 10
                /\ pc' \in {"allocate", "endrun_781"}
                /\ P' = P /\ DomainTask' = DomainTask
          /\ pc = "allocate" =>
                /\ pc' \in {"retry", "split"}
                /\ pc' = "split" <=> overflowStage' = ""
                /\ P' = P]_vars

\* C6 witness: a decomposition that finished after two restarts or more
C6_Witness ==
    /\ pc = "done"
    /\ retries >= 2
    /\ \A r \in Ranks : treeRet[r] = 0
    /\ NTopnodes <= MaxTopNodes

\* C7 as stated: an overflow that repeated 10 times has aborted the run
C7_TenRestartsAreFatal == retries >= 10 => pc = "endrun_781"

\* C7, amended: the loop keeps no count of its restarts; a restart is fatal
\* exactly when the grown factor is above 1000, whatever the number of
\* restarts before it
C7_FatalOnlyAboveThousand ==
    /\ [](pc = "endrun_781" => TopNodeAllocFactor > 1000 * FactorUnit)
    /\ [][pc = "retry" =>
             /\ retries' = retries + 1
             /\ pc' = "endrun_781" <=> (13 * TopNodeAllocFactor) \div 10 > 1000 * FactorUnit
             /\ pc' # "endrun_781" => pc' = "allocate"]_vars

\* C7 witness: a decomposition that succeeded after more than 10 restarts
C7_Witness == pc = "done" /\ retries > 10

\* C8: the load-balanced split is used exactly when the work-balanced
\* assignment gives some rank more than MaxPart particles; when the
\* load-balanced assignment does so too the run ends in endrun(0) with the
\* particle tables untouched; otherwise the assignment handed to the exchange
\* gives no rank more than MaxPart particles
C8_MemoryCeilingFallback ==
    (PastTreeBuild /\ pc \notin {"split", "endrun_112"}) =>
        /\ usedLoadSplit <=> workLoad > MaxPart
        /\ pc = "endrun_0" <=> (usedLoadSplit /\ loadLoad > MaxPart)
        /\ pc = "endrun_0" => P = P0
        /\ pc # "endrun_0" => MaxOwnerLoad(DomainTask, domainCount) <= MaxPart

-----------------------------------------------------------------------------
(* domain_fork_particle                                                     *)

\* width of the Generation counter and of the stamp in the identifier
GenerationBits == 8
\* width of the identifier below the stamp (56 in the source)
IdLowBits == 3
\* All.MaxPart in the runs of the fork
MaxPartFork == 4
\* most particles before the first fork
MaxOriginals == 2

\* a child that keeps the identifier of its parent
ChildID_Keep(id, g) == id

\* line 813: (ID & 0x00ffffffffffffffL) + (g << 56L)
ChildID(id, g) == (id % (2 ^ IdLowBits)) + g * (2 ^ IdLowBits)

\* lines 809-816: the table after the fork of parent
ForkTable(Pr, parent) ==
    LET g == (At(Pr, parent).Generation + 1) % (2 ^ GenerationBits)
    IN Append(Upd(Pr, parent, [At(Pr, parent) EXCEPT !.Generation = g]),
              [At(Pr, parent) EXCEPT !.Generation = g,
                                     !.ID = ChildID(At(Pr, parent).ID, g),
                                     !.Mass = 0])

\* lines 780-842 on rank 0, for any parent
DomainForkParticle ==
    /\ pc = "fork"
    /\ \E parent \in 0 .. (NumPart(0) - 1) :
         IF NumPart(0) >= MaxPartFork
         THEN /\ pc' = "endrun_8888"
              /\ forkParent' = parent
              /\ UNCHANGED <<P, Nextnode, Father, ActiveParticle, forkChild>>
         ELSE /\ forkParent' = parent
              /\ forkChild' = NumPart(0)
              /\ ActiveParticle' = Append(ActiveParticle, NumPart(0))
              /\ P' = [P EXCEPT ![0] = ForkTable(P[0], parent)]
              /\ IF Nextnode # << >>
                 THEN /\ Nextnode' = Upd(Upd(Nextnode, parent, NumPart(0)),
                                         NumPart(0), At(Nextnode, parent))
                      /\ Father' = Upd(Father, NumPart(0), At(Father, parent))
                 ELSE UNCHANGED <<Nextnode, Father>>
              /\ pc' = "fork"
    /\ UNCHANGED <<NTask, AuxVars, prev, SphP, BhP, NLocal, TreeVars, exchange_limit, ExchangeVars, P0,
                   DecompVars>>

NextFork == DomainForkParticle

\* the identifiers, types and generations the first particles are drawn from
OriginalIds == {1, 2, 2 ^ IdLowBits - 1}
OriginalGenerations == {0, 2 ^ GenerationBits - 1}

\* the tree node that is the father of the first particles
ForkFatherNode == MaxPartFork

InitFork ==
    /\ pc = "fork"
    /\ NTask = 1
    /\ \E n \in 1 .. MaxOriginals :
       \E ids \in [1 .. n -> OriginalIds], gens \in [1 .. n -> OriginalGenerations] :
         /\ \A i, j \in 1 .. n : i # j => ids[i] # ids[j]
         /\ P = [r \in {0} |->
                   [i \in 1 .. n |-> [NewParticle(ids[i], 0, 0, 0) EXCEPT
                                         !.Generation = gens[i]]]]
         /\ ActiveParticle = [i \in 1 .. n |-> i - 1]
         /\ \/ Nextnode = << >> /\ Father = << >>
            \/ /\ Nextnode = [i \in 1 .. MaxPartFork |-> IF i < n THEN i ELSE -1]
               /\ Father = [i \in 1 .. MaxPartFork |->
                              IF i <= n THEN ForkFatherNode + (i - 1) ELSE -1]
    /\ SphP = [r \in {0} |-> [i \in 1 .. Len(P[r]) |-> [ID |-> P[r][i].ID]]]
    /\ BhP = [r \in {0} |-> << >>]
    /\ NLocal = [r \in {0} |-> domain_count_particles(P[r])]
    /\ topNodes = << >>
    /\ NTopleaves = 0
    /\ DomainTask = << >>
    /\ exchange_limit = [r \in {0} |-> BigLimit]
    /\ toGo = [r \in {0} |-> Zero(1)]
    /\ toGoSph = toGo /\ toGoBh = toGo /\ toGet = toGo /\ toGetSph = toGo /\ toGetBh = toGo
    /\ ret = 0
    /\ iter = 0
    /\ P0 = P
    /\ DecompIdle /\ heap = << >>
    /\ forkParent = -1 /\ forkChild = -1
    /\ AuxIdle /\ prev = << >>

SpecFork == InitFork /\ [][NextFork]_vars

-----------------------------------------------------------------------------
(* Properties of domain_fork_particle                                       *)

\* C9: a fork with NumPart < MaxPart returns the previous NumPart, adds
\* exactly one particle, increments the parent's Generation by 1 (modulo 256),
\* makes the child a copy of the parent with Mass 0 and with the identifier
\* made of the parent's low bits and the new generation in the high bits (for
\* a parent of generation 0: the low bits with stamp 1), leaves every other
\* particle as it was, and, when a force tree exists, links parent -> child ->
\* the parent's old successor and gives the child the parent's Father
C9_ForkEffect ==
    [][(pc = "fork" /\ NumPart(0) < MaxPartFork) =>
         /\ pc' = "fork"
         /\ forkChild' = NumPart(0)
         /\ Len(P'[0]) = NumPart(0) + 1
         /\ forkParent' \in 0 .. (NumPart(0) - 1)
         /\ At(P'[0], forkParent').Generation
               = (At(P[0], forkParent').Generation + 1) % 256
         /\ At(P'[0], forkParent')
               = [At(P[0], forkParent') EXCEPT
                     !.Generation = At(P'[0], forkParent').Generation]
         /\ At(P'[0], forkChild')
               = [At(P'[0], forkParent') EXCEPT
                     !.Mass = 0,
                     !.ID = (At(P[0], forkParent').ID % (2 ^ IdLowBits))
                              + At(P'[0], forkParent').Generation * (2 ^ IdLowBits)]
         /\ At(P[0], forkParent').Generation = 0 =>
               At(P'[0], forkChild').ID
                  = (At(P[0], forkParent').ID % (2 ^ IdLowBits)) + 2 ^ IdLowBits
         /\ \A i \in 0 .. (NumPart(0) - 1) :
               i # forkParent' => At(P'[0], i) = At(P[0], i)
         /\ Nextnode # << >> =>
               /\ At(Nextnode', forkParent') = forkChild'
               /\ At(Nextnode', forkChild') = At(Nextnode, forkParent')
               /\ At(Father', forkChild') = At(Father, forkParent')
               /\ \A i \in 0 .. (MaxPartFork - 1) :
                     /\ i \notin {forkParent', forkChild'} =>
                           At(Nextnode', i) = At(Nextnode, i)
                     /\ i # forkChild' => At(Father', i) = At(Father, i)
         /\ Nextnode = << >> => Nextnode' = << >> /\ Father' = << >>]_vars

\* C9 witness: the first fork of a generation-0 particle that stands in a
\* force tree
C9_Witness ==
    /\ pc = "fork"
    /\ forkChild = 1
    /\ NumPart(0) = 2
    /\ Nextnode # << >>
    /\ At(P0[0], 0).Generation = 0
    /\ At(P[0], 0).Generation = 1
    /\ At(P[0], 1).Mass = 0
    /\ At(P[0], 1).ID = At(P0[0], 0).ID + 2 ^ IdLowBits
    /\ At(Nextnode, 0) = 1

\* C10: when the first particles have distinct identifiers with the high bits
\* zero and generation 0, the identifiers stay pairwise distinct after any
\* forks of originals and of children
C10_ForkIdsDistinct ==
    (\A i \in 1 .. Len(P0[0]) : P0[0][i].Generation = 0 /\ P0[0][i].ID < 2 ^ IdLowBits) =>
        \A i, j \in 1 .. Len(P[0]) : i # j => P[0][i].ID # P[0][j].ID

-----------------------------------------------------------------------------
(* domain_fork_particle called by several threads                           *)

\* threads that fork at the same time, each with a parent of its own
NThreads == 2
ThreadIds == 1 .. NThreads

\* a slot of the base table that fetch-and-add has handed out and that has
\* not been written yet
UnwrittenEntry == [NewParticle(0, 0, 0, 0) EXCEPT !.ID = -1, !.Mass = -1]

\* system.h lines 60-68 on the length of a table: the old value is returned
\* and the table has one more entry, in one step
atomic_fetch_and_add(s, v) == [old |-> Len(s), new |-> Append(s, v)]

\* lines 809-816 for a child slot that exists already
ForkWrite(Pr, parent, child) ==
    LET g == (At(Pr, parent).Generation + 1) % (2 ^ GenerationBits)
    IN Upd(Upd(Pr, parent, [At(Pr, parent) EXCEPT !.Generation = g]),
           child,
           [At(Pr, parent) EXCEPT !.Generation = g,
                                  !.ID = ChildID(At(Pr, parent).ID, g),
                                  !.Mass = 0])

ThreadFrame == <<NTask, SphP, BhP, NLocal, TreeVars, exchange_limit, ExchangeVars, P0,
                 DecompVars, forkParent, forkChild, MergeVars, gcP, DomainList, segTask,
                 quasar, prev>>

\* lines 797-802: the test of NumPart, on its own
ThreadCheck(t) ==
    /\ pc = "threads"
    /\ threads[t].pc = "check"
    /\ IF NumPart(0) >= MaxPartFork
       THEN pc' = "endrun_8888" /\ UNCHANGED threads
       ELSE pc' = pc /\ threads' = [threads EXCEPT ![t].pc = "fetch_NumPart"]
    /\ UNCHANGED <<P, Nextnode, Father, ActiveParticle, ThreadFrame>>

\* line 804
ThreadFetchNumPart(t) ==
    /\ pc = "threads"
    /\ threads[t].pc = "fetch_NumPart"
    /\ \E f \in {atomic_fetch_and_add(P[0], UnwrittenEntry)} :
         /\ P' = [P EXCEPT ![0] = f.new]
         /\ threads' = [threads EXCEPT ![t].pc = "fetch_Active", ![t].child = f.old]
    /\ UNCHANGED <<pc, Nextnode, Father, ActiveParticle, ThreadFrame>>

\* lines 806-807
ThreadFetchActive(t) ==
    /\ pc = "threads"
    /\ threads[t].pc = "fetch_Active"
    /\ \E f \in {atomic_fetch_and_add(ActiveParticle, threads[t].child)} :
         ActiveParticle' = f.new
    /\ threads' = [threads EXCEPT ![t].pc = "body"]
    /\ UNCHANGED <<pc, P, Nextnode, Father, ThreadFrame>>

\* lines 809-841: a child index outside the table is a write outside P
ThreadBody(t) ==
    /\ pc = "threads"
    /\ threads[t].pc = "body"
    /\ IF threads[t].child >= MaxPartFork
       THEN /\ pc' = "undefined_write"
            /\ UNCHANGED <<P, Nextnode, Father, threads>>
       ELSE /\ pc' = pc
            /\ P' = [P EXCEPT ![0] = ForkWrite(P[0], threads[t].parent, threads[t].child)]
            /\ IF Nextnode # << >>
               THEN /\ Nextnode' = Upd(Upd(Nextnode, threads[t].parent, threads[t].child),
                                       threads[t].child, At(Nextnode, threads[t].parent))
                    /\ Father' = Upd(Father, threads[t].child, At(Father, threads[t].parent))
               ELSE UNCHANGED <<Nextnode, Father>>
            /\ threads' = [threads EXCEPT ![t].pc = "returned"]
    /\ UNCHANGED <<ActiveParticle, ThreadFrame>>

NextForkThreads ==
    \E t \in ThreadIds :
        ThreadCheck(t) \/ ThreadFetchNumPart(t) \/ ThreadFetchActive(t) \/ ThreadBody(t)

\* NThreads to MaxPartFork - 1 gas particles, every thread about to fork a
\* parent of its own
InitForkThreads ==
    /\ pc = "threads"
    /\ NTask = 1
    /\ \E n \in NThreads .. (MaxPartFork - 1) :
       \E ids \in [1 .. n -> OriginalIds], gens \in [1 .. n -> OriginalGenerations] :
         /\ \A i, j \in 1 .. n : i < j => ids[i] < ids[j]
         /\ P = [r \in {0} |->
                   [i \in 1 .. n |-> [NewParticle(ids[i], 0, 0, 0) EXCEPT
                                         !.Generation = gens[i]]]]
         /\ ActiveParticle = [i \in 1 .. n |-> i - 1]
         /\ \/ Nextnode = << >> /\ Father = << >>
            \/ /\ Nextnode = [i \in 1 .. MaxPartFork |-> IF i < n THEN i ELSE -1]
               /\ Father = [i \in 1 .. MaxPartFork |->
                              IF i <= n THEN ForkFatherNode + (i - 1) ELSE -1]
         /\ \E par \in [ThreadIds -> 0 .. (n - 1)] :
              /\ \A t, u \in ThreadIds : t # u => par[t] # par[u]
              /\ threads = [t \in ThreadIds |-> [pc |-> "check", parent |-> par[t], child |-> -1]]
    /\ SphP = [r \in {0} |-> [i \in 1 .. Len(P[r]) |-> [ID |-> P[r][i].ID]]]
    /\ BhP = [r \in {0} |-> << >>]
    /\ NLocal = [r \in {0} |-> domain_count_particles(P[r])]
    /\ topNodes = << >>
    /\ NTopleaves = 0
    /\ DomainTask = << >>
    /\ exchange_limit = [r \in {0} |-> BigLimit]
    /\ toGo = [r \in {0} |-> Zero(1)]
    /\ toGoSph = toGo /\ toGoBh = toGo /\ toGet = toGo /\ toGetSph = toGo /\ toGetBh = toGo
    /\ ret = 0
    /\ iter = 0
    /\ P0 = P
    /\ DecompIdle /\ heap = << >>
    /\ forkParent = -1 /\ forkChild = -1
    /\ mrank = << >> /\ chan = {} /\ contrib = << >> /\ bcastBuf = << >>
    /\ eagerSend = FALSE /\ sendLog = {}
    /\ gcP = << >> /\ DomainList = << >> /\ segTask = << >>
    /\ quasar = << >>
    /\ prev = << >>

SpecForkThreads == InitForkThreads /\ [][NextForkThreads]_vars

\* C11: NumPart <= MaxPart in every reachable state; a fork attempted with
\* NumPart >= MaxPart is fatal and appends nothing; threads that fork at the
\* same time, each with a locked parent of its own, get pairwise distinct
\* child indices that are all below MaxPart
C11_ForkBoundThreads ==
    /\ NumPart(0) <= MaxPartFork
    /\ pc # "undefined_write"
    /\ \A t \in ThreadIds :
          threads[t].child # -1 => threads[t].child \in 0 .. (MaxPartFork - 1)
    /\ \A t, u \in ThreadIds :
          (t # u /\ threads[t].child # -1) => threads[t].child # threads[u].child

-----------------------------------------------------------------------------
(* domain_garbage_collection (built with SFR, which compiles the gas        *)
(* reclaim in).  A table set is [P, SphP, BhP, end]: the three tables of a  *)
(* rank and how the pass ended ("" while it runs normally).  A gas slot     *)
(* beyond N_sph_slots is not part of SphP: a write to it is dropped.        *)

\* a gas reclaim that is compiled out
domain_sph_garbage_collection_reclaim_None(st) == st

\* a reclaim that shortens the gas prefix and moves no entry
ReclaimWalk_Cut(st, i) ==
    [st EXCEPT !.SphP = Front(@, Cardinality({n \in 1 .. Len(st.SphP) : st.P[n].Type = 0}))]

RECURSIVE ReclaimWalk(_, _)
\* lines 1879-1894
ReclaimWalk(st, i) ==
    IF i >= Len(st.SphP) THEN st
    ELSE IF At(st.P, i).Type # 0
    THEN LET ns == Len(st.SphP)
             P1 == Upd(st.P, i, At(st.P, ns - 1))
         IN ReclaimWalk([st EXCEPT !.P = Upd(P1, ns - 1, At(st.P, i)),
                                   !.SphP = Front(Upd(st.SphP, i, At(st.SphP, ns - 1)), ns - 1),
                                   !.tree_invalid = 1],
                        i)
    ELSE ReclaimWalk(st, i + 1)

\* lines 1869-1901
domain_sph_garbage_collection_reclaim(st) == ReclaimWalk(st, 0)

\* TimeBinCount and TimeBinCountSph, counted from their values when the
\* collection starts
NoBinChange == [b \in 0 .. TimeBins |-> 0]

\* the tables of rank r as the collection finds them
CollectInput(r) ==
    [P |-> P[r], SphP |-> SphP[r], BhP |-> BhP[r], end |-> "", tree_invalid |-> 0,
     TimeBinCount |-> NoBinChange, TimeBinCountSph |-> NoBinChange]

RECURSIVE AllWalk(_, _)
\* lines 1917-1943
AllWalk(st, i) ==
    IF st.end # "" \/ i >= Len(st.P) THEN st
    ELSE IF At(st.P, i).Mass # 0 THEN AllWalk(st, i + 1)
    ELSE LET np == Len(st.P)
             ns == Len(st.SphP)
             P1 == Upd(st.P, i, At(st.P, ns - 1))
             P2 == Upd(P1, ns - 1, At(P1, np - 1))
         IN IF At(st.P, i).Type = 0
            THEN IF ns = 0 THEN [st EXCEPT !.end = "undefined_index"]   \* P[-1]
                 ELSE AllWalk([st EXCEPT
                                  !.TimeBinCount[At(st.P, i).TimeBin] = @ - 1,
                                  !.TimeBinCountSph[At(st.P, i).TimeBin] = @ - 1,
                                  !.P = Front(P2, np - 1),
                                  !.SphP = Front(IF i < ns
                                                 THEN Upd(st.SphP, i, At(st.SphP, ns - 1))
                                                 ELSE st.SphP,
                                                 ns - 1)],
                              i)
            ELSE AllWalk([st EXCEPT !.TimeBinCount[At(st.P, i).TimeBin] = @ - 1,
                                    !.P = Front(Upd(st.P, i, At(st.P, np - 1)), np - 1)], i)

\* lines 1903-1957
domain_all_garbage_collection(st) == AllWalk(st, 0)

\* lines 725-735: the base entries that point at slot s
LinkedTo(Pr, s) == {i \in 0 .. (Len(Pr) - 1) : At(Pr, i).Type = 5 /\ At(Pr, i).PI = s}

RECURSIVE SlotsInUse(_, _, _)
\* lines 739-743: the slots that are referenced, in the order of their
\* ReverseLink; the slots with ReverseLink -1 are sorted behind them and cut
SlotsInUse(Pr, Bh, i) ==
    IF i >= Len(Pr) THEN << >>
    ELSE IF At(Pr, i).Type = 5
    THEN <<[slot |-> At(Pr, i).PI, link |-> i]>> \o SlotsInUse(Pr, Bh, i + 1)
    ELSE SlotsInUse(Pr, Bh, i + 1)

\* a black-hole pass that returns at once
domain_bh_garbage_collection_Bail(st, total0) == st

\* lines 700-778 on one rank; total0 is the sum of N_bh_slots over the ranks
domain_bh_garbage_collection(st, total0) ==
    IF total0 = 0 \/ st.end # "" THEN st
    ELSE IF \E i \in 0 .. (Len(st.P) - 1) :
               At(st.P, i).Type = 5 /\ At(st.P, i).PI \notin 0 .. (MaxPartBh - 1)
    THEN [st EXCEPT !.end = "undefined_index"]
    ELSE IF \E i \in 0 .. (Len(st.P) - 1) :
               /\ At(st.P, i).Type = 5
               /\ \/ At(st.P, i).PI >= Len(st.BhP)
                  \/ At(st.BhP, At(st.P, i).PI).ID # At(st.P, i).ID
    THEN [st EXCEPT !.end = "endrun_1"]
    ELSE IF \E s \in 0 .. (Len(st.BhP) - 1) : Cardinality(LinkedTo(st.P, s)) > 1
    THEN [st EXCEPT !.end = "endrun_1"]
    ELSE LET used == SlotsInUse(st.P, st.BhP, 0)
         IN [st EXCEPT
                !.BhP = [k \in 1 .. Len(used) |->
                           [At(st.BhP, used[k].slot) EXCEPT !.ReverseLink = -1]],
                !.P = [n \in 1 .. Len(st.P) |->
                         IF st.P[n].Type = 5
                         THEN [st.P[n] EXCEPT
                                  !.PI = (CHOOSE k \in 1 .. Len(used) : used[k].link = n - 1) - 1]
                         ELSE st.P[n]]]

\* lines 1833-1852 on all ranks: the three passes, then domain_count_particles
domain_garbage_collection ==
    [r \in Ranks |->
        domain_bh_garbage_collection(
            domain_all_garbage_collection(
                domain_sph_garbage_collection_reclaim(CollectInput(r))),
            SumAll([q \in Ranks |-> N_bh_slots(q)]))]

-----------------------------------------------------------------------------
(* The collaborators between two collections, and the collection            *)

\* what a collaborator does to one particle: nothing, delete it (Mass 0),
\* turn gas into a star in place, turn gas into a black hole in place (with a
\* new slot behind the last one), and the last two followed by a delete
MutationKinds == {"keep", "delete", "star", "star_delete", "bh", "bh_delete"}

RECURSIVE Mutate(_, _, _)
\* the tables [P, BhP] of a rank after the mutations m[1], m[2], ...
Mutate(st, m, n) ==
    IF n > Len(st.P) THEN st
    ELSE LET p == st.P[n]
             dead(q) == IF m[n] \in {"delete", "star_delete", "bh_delete"}
                        THEN [q EXCEPT !.Mass = 0] ELSE q
         IN Mutate(
              IF m[n] \in {"star", "star_delete"}
              THEN [st EXCEPT !.P[n] = dead([p EXCEPT !.Type = 4])]
              ELSE IF m[n] \in {"bh", "bh_delete"}
              THEN [st EXCEPT !.P[n] = dead([p EXCEPT !.Type = 5, !.PI = Len(st.BhP)]),
                              !.BhP = Append(@, [ID |-> p.ID, ReverseLink |-> -1])]
              ELSE [st EXCEPT !.P[n] = dead(p)],
              m, n + 1)

\* only gas changes type, and the black-hole slots suffice
MutationAllowed(Pr, Bh, m) ==
    /\ \A n \in 1 .. Len(Pr) : m[n] \in {"star", "star_delete", "bh", "bh_delete"} => Pr[n].Type = 0
    /\ Len(Bh) + Cardinality({n \in 1 .. Len(Pr) : m[n] \in {"bh", "bh_delete"}}) <= MaxPartBh

CollectFrame == <<NTask, TreeVars, exchange_limit, ExchangeVars, P0, DecompVars, ForkVars,
                  threads, MergeVars, DomainList, segTask, quasar, prev>>

\* the collaborators change particles in place
Collaborate ==
    /\ pc = "collaborate"
    /\ \E m \in [Ranks -> SeqsUpTo(MutationKinds, MaxPart)] :
         /\ \A r \in Ranks : Len(m[r]) = NumPart(r) /\ MutationAllowed(P[r], BhP[r], m[r])
         /\ \E r \in Ranks : \E n \in 1 .. Len(m[r]) : m[r][n] # "keep"
         /\ \E st \in {[r \in Ranks |-> Mutate([P |-> P[r], BhP |-> BhP[r]], m[r], 1)]} :
              /\ P' = [r \in Ranks |-> st[r].P]
              /\ BhP' = [r \in Ranks |-> st[r].BhP]
    /\ pc' = "mutated"
    /\ UNCHANGED <<SphP, NLocal, gcP, CollectFrame>>

\* lines 780-816 on rank r for a gas parent, outside a force tree: the child
\* is left as the fork made it
ForkGas ==
    /\ pc = "collaborate"
    /\ \E r \in Ranks : \E parent \in 0 .. (NumPart(r) - 1) :
         /\ At(P[r], parent).Type = 0
         /\ IF NumPart(r) >= MaxPart
            THEN pc' = "endrun_8888" /\ P' = P
            ELSE pc' = pc /\ P' = [P EXCEPT ![r] = ForkTable(P[r], parent)]
    /\ UNCHANGED <<SphP, BhP, NLocal, gcP, CollectFrame>>

\* lines 1833-1852
Collect ==
    /\ pc \in {"collaborate", "mutated"}
    /\ gcP' = P
    /\ \E st \in {domain_garbage_collection} :
         /\ P' = [r \in Ranks |-> st[r].P]
         /\ SphP' = [r \in Ranks |-> st[r].SphP]
         /\ BhP' = [r \in Ranks |-> st[r].BhP]
         /\ IF \E r \in Ranks : st[r].end # ""
            THEN /\ pc' = st[CHOOSE r \in Ranks : st[r].end # ""].end
                 /\ NLocal' = NLocal
            ELSE /\ pc' = "collected"
                 /\ NLocal' = [r \in Ranks |-> domain_count_particles(st[r].P)]
    /\ UNCHANGED CollectFrame

NextCollect == Collaborate \/ ForkGas \/ Collect

\* the tables rank 1 starts with: none, a black hole, gas and a black hole
OtherRankKinds == {<< >>, <<<<5, 0>>>>, <<<<0, 0>>, <<5, 0>>>>}

\* the slots an exchange leaves behind on rank 0 for black holes it has
\* exported: none, or one in front of the slots in use
LeftSlots == {<< >>, <<[ID |-> 0, ReverseLink |-> -1]>>}

\* the table Pr with the links of its black holes moved up by n slots
LinkShift(Pr, n) ==
    [i \in 1 .. Len(Pr) |-> IF Pr[i].Type = 5 THEN [Pr[i] EXCEPT !.PI = @ + n] ELSE Pr[i]]

\* the tables as a collection and an exchange leave them: gas first, every
\* gas entry with its slot, every black hole with a slot of its own
InitCollect ==
    /\ pc = "collaborate"
    /\ NTask = NTaskModel
    /\ \E kinds \in [RanksOf(NTaskModel) -> SeqsUpTo({0, 1, 5} \X {0}, MaxPart)] :
         /\ \A r \in RanksOf(NTaskModel) :
               /\ GasFirst(kinds[r]) /\ NumOfType(kinds[r], 5) <= MaxPartBh
               /\ r > 0 => kinds[r] \in OtherRankKinds
         /\ \E left \in LeftSlots :
               /\ NumOfType(kinds[0], 5) + Len(left) <= MaxPartBh
               /\ P = [r \in RanksOf(NTaskModel) |->
                         IF r = 0 THEN LinkShift(TableOf(kinds[r], r * MaxPart), Len(left))
                         ELSE TableOf(kinds[r], r * MaxPart)]
               /\ BhP = [r \in RanksOf(NTaskModel) |->
                           IF r = 0 THEN left \o BhOf(P[r]) ELSE BhOf(P[r])]
    /\ SphP = [r \in RanksOf(NTaskModel) |-> SphOf(P[r])]
    /\ NLocal = [r \in RanksOf(NTaskModel) |-> domain_count_particles(P[r])]
    /\ topNodes = << >>
    /\ NTopleaves = 0
    /\ DomainTask = << >>
    /\ exchange_limit = [r \in RanksOf(NTaskModel) |-> BigLimit]
    /\ toGo = [r \in RanksOf(NTaskModel) |-> Zero(NTaskModel)]
    /\ toGoSph = toGo /\ toGoBh = toGo /\ toGet = toGo /\ toGetSph = toGo /\ toGetBh = toGo
    /\ ret = 0
    /\ iter = 0
    /\ P0 = P
    /\ DecompIdle /\ heap = << >>
    /\ ForkIdle
    /\ AuxIdle /\ prev = << >>

SpecCollect == InitCollect /\ [][NextCollect]_vars

-----------------------------------------------------------------------------
(* Properties of the collection                                             *)

\* since the tables were consistent, rank r has only forked: gas parents have
\* got zero-mass gas children behind the table, nothing else has changed
OnlyForked(r) ==
    /\ Len(gcP[r]) >= Len(P0[r])
    /\ \A n \in 1 .. Len(P0[r]) : [gcP[r][n] EXCEPT !.Generation = 0]
                                   = [P0[r][n] EXCEPT !.Generation = 0]
    /\ \A n \in (Len(P0[r]) + 1) .. Len(gcP[r]) : gcP[r][n].Type = 0 /\ gcP[r][n].Mass = 0

\* C12: when gas particles have forked zero-mass children, which stay type-0
\* copies behind the base table, and the collection runs, the children are
\* removed: on every rank NumPart, N_sph_slots, N_bh_slots and the per-type
\* counts are what they were before the forks, and every gas particle is
\* inside the gas prefix [0, N_sph_slots)
C12_ForkThenCollect ==
    (gcP # << >> /\ (\A r \in Ranks : OnlyForked(r))
       /\ (\E r \in Ranks : Len(gcP[r]) > Len(P0[r]))) =>
        /\ pc = "collected"
        /\ \A r \in Ranks :
              /\ NumPart(r) = Len(P0[r])
              /\ N_sph_slots(r) = CountType(P0[r], 0)
              /\ N_bh_slots(r) = CountType(P0[r], 5)
              /\ NLocal[r] = domain_count_particles(P0[r])
              /\ \A i \in 0 .. (NumPart(r) - 1) :
                    At(P[r], i).Type = 0 => i < N_sph_slots(r)

\* the collection started from tables that the collaborators have changed in
\* place only: no entry was added since the tables were consistent
NoFork == gcP # << >> /\ \A r \in Ranks : Len(gcP[r]) = Len(P0[r])

\* the entries of a table that are not garbage
Live(Pr) == SelectSeq(Pr, LAMBDA p : p.Mass # 0)

\* C13: after domain_garbage_collection, for tables in which the collaborators
\* have converted gas to another type in place and have set entries of any
\* type to mass 0, on every rank N_sph_slots is the number of type-0 entries
\* and these are exactly P[0 .. N_sph_slots), each with its own gas slot,
\* N_bh_slots is the number of type-5 entries, every type-5 entry has a PI of
\* its own that indexes a slot with its identifier, no entry of mass 0 is
\* left, the entries left are the live entries of before, and NLocal counts
\* them
C13_PostCollection ==
    NoFork =>
        /\ pc = "collected"
        /\ \A r \in Ranks :
              /\ N_sph_slots(r) = CountType(P[r], 0)
              /\ N_bh_slots(r) = CountType(P[r], 5)
              /\ NLocal[r] = domain_count_particles(P[r])
              /\ NumPart(r) = Len(Live(gcP[r]))
              /\ \A p \in {Live(gcP[r])[n] : n \in 1 .. Len(Live(gcP[r]))} :
                    \E i \in 0 .. (NumPart(r) - 1) : [At(P[r], i) EXCEPT !.PI = p.PI] = p
              /\ \A i \in 0 .. (NumPart(r) - 1) :
                    /\ At(P[r], i).Mass # 0
                    /\ At(P[r], i).Type = 0 <=> i < N_sph_slots(r)
                    /\ At(P[r], i).Type = 0 => At(SphP[r], i).ID = At(P[r], i).ID
                    /\ At(P[r], i).Type = 5 =>
                          /\ At(P[r], i).PI \in 0 .. (N_bh_slots(r) - 1)
                          /\ At(BhP[r], At(P[r], i).PI).ID = At(P[r], i).ID
              /\ \A i, j \in 0 .. (NumPart(r) - 1) :
                    (i # j /\ At(P[r], i).Type = 5 /\ At(P[r], j).Type = 5)
                        => At(P[r], i).PI # At(P[r], j).PI

\* C13 witness: a rank on which one gas particle became a star and one black
\* hole was deleted: N_sph_slots and N_bh_slots have each dropped by 1 and
\* the black hole that is left has moved to another slot
C13_Witness ==
    /\ pc = "collected"
    /\ NoFork
    /\ \E r \in Ranks :
          /\ N_sph_slots(r) = CountType(P0[r], 0) - 1
          /\ N_bh_slots(r) = CountType(P0[r], 5) - 1
          /\ CountType(P[r], 4) = 1
          /\ NumPart(r) = Len(P0[r]) - 1
          /\ \E i \in 0 .. (NumPart(r) - 1) : \E n \in 1 .. Len(gcP[r]) :
                /\ At(P[r], i).Type = 5
                /\ gcP[r][n].ID = At(P[r], i).ID
                /\ gcP[r][n].PI # At(P[r], i).PI

-----------------------------------------------------------------------------
(* domain_nonrecursively_combine_topTree, rank by rank.  mrank[r] holds the *)
(* locals of rank r: pc, sep, topNodes (tree), NTopnodes (n),               *)
(* ntopnodes_import (import), errorflag and errorflagall.  A message is     *)
(* [src, dst, tag, sep, body].  MPI_Send may return as soon as the message  *)
(* is buffered (eagerSend) or only when the receive has taken it.           *)

\* most ranks in a merge
MaxMergeTask == 5

\* a reduction that hands every rank its own flag back
ReducedFlag_Own(c, k, r) == c[r][k]

\* line 1529: MPI_LOR over the k-th contribution of every rank
ReducedFlag(c, k, r) == IF \E q \in Ranks : Len(c[q]) >= k /\ c[q][k] # 0 THEN 1 ELSE 0

\* an all-reduce that returns before the other ranks have called it
AllreduceReady_NoWait(c, k) == TRUE

\* line 1529: MPI_Allreduce returns when every rank has contributed
AllreduceReady(c, k) == \A q \in Ranks : Len(c[q]) >= k

\* a rank that merges nothing of what it receives
MergeInsert_Drop(tree, n, import, max) == [tree |-> tree, fatal |-> ""]

\* line 1509: domain_insertnode(topNodes, topNodes_import, 0, 0)
MergeInsert(tree, n, import, max) ==
    domain_insertnode([tree |-> Front(tree, n), fatal |-> ""], import, 0, 0, max)

\* lines 1470-1526: what rank r does in the round of separation sep
MergeRole(r, sep, nt) ==
    IF r % sep # 0 THEN "skip"
    ELSE IF (r \div sep) % 2 = 0
         THEN (IF r + sep < nt THEN "recv" ELSE "idle")
         ELSE (IF r - sep >= 0 THEN "send" ELSE "mark")

Taken(src, tag) == ~(\E m \in chan : m.src = src /\ m.tag = tag)

MergeFrame == <<NTask, P, SphP, BhP, NLocal, TreeVars, exchange_limit, ExchangeVars, P0,
                DecompVars, ForkVars, threads, eagerSend, gcP, DomainList, segTask, quasar,
                prev>>

\* lines 1468-1480 and 1485-1488: the loop test and the role in this round
MergeBegin(r) ==
    /\ pc = "merge" /\ r \in Ranks
    /\ mrank[r].pc = "loop"
    /\ mrank' = [mrank EXCEPT
          ![r].pc = IF mrank[r].sep >= NTask THEN "bcast"
                    ELSE CASE MergeRole(r, mrank[r].sep, NTask) = "recv" -> "recvA"
                           [] MergeRole(r, mrank[r].sep, NTask) = "send" -> "sendA"
                           [] OTHER -> "enter",
          ![r].import = 0,
          ![r].n = IF mrank[r].sep < NTask /\ MergeRole(r, mrank[r].sep, NTask) = "mark"
                   THEN -1 ELSE @]
    /\ UNCHANGED <<pc, chan, contrib, bcastBuf, sendLog, MergeFrame>>

\* lines 1518-1519
MergeSendA(r) ==
    /\ pc = "merge" /\ r \in Ranks
    /\ mrank[r].pc = "sendA"
    /\ chan' = chan \cup {[src |-> r, dst |-> r - mrank[r].sep, tag |-> "A",
                           sep |-> mrank[r].sep, body |-> <<mrank[r].n>>]}
    /\ sendLog' = sendLog \cup {[src |-> r, dst |-> r - mrank[r].sep, sep |-> mrank[r].sep]}
    /\ mrank' = [mrank EXCEPT ![r].pc = "sendB"]
    /\ UNCHANGED <<pc, contrib, bcastBuf, MergeFrame>>

\* lines 1520-1523, once the first MPI_Send has returned
MergeSendB(r) ==
    /\ pc = "merge" /\ r \in Ranks
    /\ mrank[r].pc = "sendB"
    /\ eagerSend \/ Taken(r, "A")
    /\ chan' = chan \cup {[src |-> r, dst |-> r - mrank[r].sep, tag |-> "B",
                           sep |-> mrank[r].sep, body |-> Front(mrank[r].tree, mrank[r].n)]}
    /\ mrank' = [mrank EXCEPT ![r].pc = "sent"]
    /\ UNCHANGED <<pc, contrib, bcastBuf, sendLog, MergeFrame>>

\* line 1525, once the second MPI_Send has returned
MergeSendEnd(r) ==
    /\ pc = "merge" /\ r \in Ranks
    /\ mrank[r].pc = "sent"
    /\ eagerSend \/ Taken(r, "B")
    /\ mrank' = [mrank EXCEPT ![r].pc = "enter", ![r].n = -1]
    /\ UNCHANGED <<pc, chan, contrib, bcastBuf, sendLog, MergeFrame>>

\* lines 1489-1491
MergeRecvA(r) ==
    /\ pc = "merge" /\ r \in Ranks
    /\ mrank[r].pc = "recvA"
    /\ \E m \in chan :
         /\ m.src = r + mrank[r].sep /\ m.dst = r /\ m.tag = "A"
         /\ chan' = chan \ {m}
         /\ mrank' = [mrank EXCEPT ![r].pc = "recvB", ![r].import = m.body[1]]
    /\ UNCHANGED <<pc, contrib, bcastBuf, sendLog, MergeFrame>>

\* lines 1492-1512
MergeRecvB(r) ==
    /\ pc = "merge" /\ r \in Ranks
    /\ mrank[r].pc = "recvB"
    /\ \E m \in chan :
         /\ m.src = r + mrank[r].sep /\ m.dst = r /\ m.tag = "B"
         /\ chan' = chan \ {m}
         /\ IF mrank[r].n + mrank[r].import > MaxTopNodes
            THEN /\ mrank' = [mrank EXCEPT ![r].pc = "enter", ![r].errorflag = 1]
                 /\ pc' = pc
            ELSE IF mrank[r].import < 0
            THEN mrank' = mrank /\ pc' = "endrun_1"
            ELSE IF mrank[r].import > 0
            THEN \E s \in {MergeInsert(mrank[r].tree, mrank[r].n, m.body, MaxTopNodes)} :
                   /\ mrank' = [mrank EXCEPT ![r].pc = "enter", ![r].tree = s.tree,
                                             ![r].n = Len(s.tree)]
                   /\ pc' = IF s.fatal # "" THEN s.fatal ELSE pc
            ELSE mrank' = [mrank EXCEPT ![r].pc = "enter"] /\ pc' = pc
    /\ UNCHANGED <<contrib, bcastBuf, sendLog, MergeFrame>>

\* line 1529: the call of MPI_Allreduce
MergeEnter(r) ==
    /\ pc = "merge" /\ r \in Ranks
    /\ mrank[r].pc = "enter"
    /\ contrib' = [contrib EXCEPT ![r] = Append(@, mrank[r].errorflag)]
    /\ mrank' = [mrank EXCEPT ![r].pc = "wait"]
    /\ UNCHANGED <<pc, chan, bcastBuf, sendLog, MergeFrame>>

\* lines 1529-1533: the return of MPI_Allreduce, the break, sep *= 2
MergeLeave(r) ==
    /\ pc = "merge" /\ r \in Ranks
    /\ mrank[r].pc = "wait"
    /\ AllreduceReady(contrib, Len(contrib[r]))
    /\ \E all \in {ReducedFlag(contrib, Len(contrib[r]), r)} :
         mrank' = [mrank EXCEPT ![r].errorflagall = all,
                                ![r].pc = IF all # 0 THEN "bcast" ELSE "loop",
                                ![r].sep = IF all # 0 THEN @ ELSE 2 * @]
    /\ UNCHANGED <<pc, chan, contrib, bcastBuf, sendLog, MergeFrame>>

\* lines 1535-1538: rank 0 is the root of the two MPI_Bcast
MergeBcast(r) ==
    /\ pc = "merge" /\ r \in Ranks
    /\ mrank[r].pc = "bcast"
    /\ IF r = 0
       THEN /\ bcastBuf' = <<[n |-> mrank[0].n, tree |-> Front(mrank[0].tree, mrank[0].n)]>>
            /\ mrank' = [mrank EXCEPT ![r].pc = "returned"]
       ELSE /\ bcastBuf # << >>
            /\ bcastBuf' = bcastBuf
            /\ mrank' = [mrank EXCEPT
                  ![r].pc = "returned",
                  ![r].n = bcastBuf[1].n,
                  ![r].tree = bcastBuf[1].tree
                                \o SubSeq(@, bcastBuf[1].n + 1, Len(@))]
    /\ UNCHANGED <<pc, chan, contrib, sendLog, MergeFrame>>

NextMerge ==
    \E r \in 0 .. (MaxMergeTask - 1) :
        MergeBegin(r) \/ MergeSendA(r) \/ MergeSendB(r) \/ MergeSendEnd(r)
          \/ MergeRecvA(r) \/ MergeRecvB(r) \/ MergeEnter(r) \/ MergeLeave(r)
          \/ MergeBcast(r)

\* MaxTopNodes of a merge: too small for two roots, or large enough
MergeBudgets == {1, 2}

\* 1 to MaxMergeTask ranks with one or two particles each, every rank with
\* the local tree lines 1577-1589 have built, at the call of line 1606
InitMerge ==
    /\ pc = "merge"
    /\ NTask \in 1 .. MaxMergeTask
    /\ \E a \in {0, 1} :
         P = [r \in RanksOf(NTask) |->
                DecompTable([i \in 1 .. (((r + a) % 2) + 1) |-> <<(r * 9) % PEANOCELLS, i - 1>>],
                            r * MaxPart)]
    /\ MaxTopNodes \in MergeBudgets
    /\ eagerSend \in BOOLEAN
    /\ mrank = [r \in RanksOf(NTask) |->
                  [pc |-> "loop", sep |-> 1, tree |-> LocalTree(r, MaxTopNodes).tree,
                   n |-> Len(LocalTree(r, MaxTopNodes).tree), import |-> 0,
                   errorflag |-> 0, errorflagall |-> 0]]
    /\ chan = {}
    /\ contrib = [r \in RanksOf(NTask) |-> << >>]
    /\ bcastBuf = << >>
    /\ sendLog = {}
    /\ SphP = [r \in RanksOf(NTask) |-> << >>]
    /\ BhP = [r \in RanksOf(NTask) |-> << >>]
    /\ NLocal = [r \in RanksOf(NTask) |-> domain_count_particles(P[r])]
    /\ topNodes = << >>
    /\ NTopleaves = 0
    /\ DomainTask = << >>
    /\ exchange_limit = [r \in RanksOf(NTask) |-> BigLimit]
    /\ toGo = [r \in RanksOf(NTask) |-> Zero(NTask)]
    /\ toGoSph = toGo /\ toGoBh = toGo /\ toGet = toGo /\ toGetSph = toGo /\ toGetBh = toGo
    /\ ret = 0
    /\ iter = 0
    /\ P0 = P
    /\ TopNodeAllocFactor = 0 /\ NTopnodes = 0 /\ OverDecomp = 1
    /\ treeRet = << >> /\ overflowStage = "" /\ retries = 0
    /\ heap = DecomposeBuffers(domain_allocate(<< >>))
    /\ domainWork = << >> /\ domainCount = << >>
    /\ workLoad = -1 /\ loadLoad = -1 /\ usedLoadSplit = FALSE
    /\ ForkIdle
    /\ threads = << >> /\ gcP = << >> /\ DomainList = << >> /\ segTask = << >>
    /\ quasar = << >>
    /\ prev = << >>

SpecMerge == InitMerge /\ [][NextMerge]_vars

\* every rank runs: a step that stays possible is taken
SpecMergeFair == SpecMerge /\ WF_vars(NextMerge)

-----------------------------------------------------------------------------
(* Properties of the merge                                                  *)

AllReturned == \A r \in Ranks : mrank[r].pc = "returned"

MergeOverflowed == \E r \in Ranks : mrank[r].errorflagall # 0

\* C14: when domain_nonrecursively_combine_topTree has returned without
\* overflow, with 1 to MaxMergeTask ranks: every rank holds the NTopnodes and
\* the topNodes of rank 0, and the root's Count (and Cost) is the sum over all
\* ranks of the local particle counts (costs); rank 0 holds that tree from
\* the end of the last round on
C14_MergeResult ==
    /\ (AllReturned /\ ~MergeOverflowed) =>
          \A r \in Ranks :
             /\ mrank[r].n = mrank[0].n
             /\ mrank[r].n >= 1
             /\ Front(mrank[r].tree, mrank[r].n) = Front(mrank[0].tree, mrank[0].n)
             /\ At(mrank[r].tree, 0).Count = TotNumPart
             /\ At(mrank[r].tree, 0).Cost = SumAll([q \in Ranks |-> GravCostOf(P[q])])
    /\ (mrank[0].pc \in {"bcast", "returned"} /\ mrank[0].errorflagall = 0) =>
          At(mrank[0].tree, 0).Count = TotNumPart

\* C14 witness: a merge of 5 ranks with different particle counts has
\* returned without overflow, after 3 rounds
C14_Witness ==
    /\ AllReturned
    /\ ~MergeOverflowed
    /\ NTask = 5
    /\ NumPart(0) # NumPart(1)
    /\ mrank[0].sep = 8
    /\ At(mrank[4].tree, 0).Count = TotNumPart

\* the sends rank r has done
SendsOf(r) == {s \in sendLog : s.src = r}

\* rank r has done its part of the round it is in
RoundPartDone(r) == mrank[r].pc \in {"enter", "wait"}

\* what holds of the schedule in every state, whether or not the merge overflows
ScheduleSafe ==
    \* who sends to whom, and in which round
    /\ \A s \in sendLog :
          /\ s.sep \in {1, 2, 4, 8} /\ s.sep < NTask
          /\ s.src % (2 * s.sep) = s.sep
          /\ s.dst = s.src - s.sep
          /\ s.dst % (2 * s.sep) = 0
    \* who receives: the ranks with id modulo 2s equal to 0 whose partner exists
    /\ \A r \in Ranks :
          mrank[r].pc \in {"recvA", "recvB"} =>
              r % (2 * mrank[r].sep) = 0 /\ r + mrank[r].sep < NTask
    \* every other rank has sent once, now or in an earlier round, and is marked
    /\ \A r \in Ranks :
          (RoundPartDone(r) /\ r % (2 * mrank[r].sep) # 0) =>
              Cardinality(SendsOf(r)) = 1 /\ mrank[r].n = -1
    \* a message under way is received in the round it was sent in
    /\ \A m \in chan :
          /\ MergeRole(m.dst, m.sep, NTask) = "recv"
          /\ \/ /\ mrank[m.dst].sep = m.sep
                /\ mrank[m.dst].pc \in {"loop", "recvA", "recvB"}
             \/ /\ mrank[m.dst].sep * 2 = m.sep
                /\ mrank[m.dst].pc = "wait"
    /\ AllReturned => chan = {}
    /\ \A r \in Ranks : Cardinality(SendsOf(r)) <= 1
    /\ SendsOf(0) = {}
    \* no rank is in a later round while another has not finished its part
    /\ \A a, b \in Ranks : mrank[a].sep > mrank[b].sep => mrank[b].pc = "wait"

\* C15 as stated: the schedule, and every rank other than 0 has sent exactly
\* once when the merge has returned
C15_MergeScheduleAsStated ==
    /\ ScheduleSafe
    /\ AllReturned => \A r \in Ranks \ {0} : Cardinality(SendsOf(r)) = 1

\* C15, amended: in the round of separation s the ranks with id modulo 2s
\* equal to 0 receive from rank self + s when it exists, every other rank that
\* has not sent yet sends to rank self - s and marks itself done; every send
\* is received in the round it was sent in and the merge always returns on
\* every rank (no deadlock, for any number of ranks and for buffered and
\* unbuffered sends); rank 0 never sends; every other rank sends at most
\* once, and exactly once when the merge ends without overflow (an overflow
\* ends the rounds early); no rank is in round 2s before every rank has done
\* its part of round s
C15_MergeSchedule ==
    /\ [](/\ ScheduleSafe
          /\ (AllReturned /\ ~MergeOverflowed) =>
                \A r \in Ranks \ {0} : Cardinality(SendsOf(r)) = 1)
    /\ <>AllReturned

\* C15 witness: 5 ranks with unbuffered sends have merged in 3 rounds: rank 4
\* was without partner in rounds 1 and 2 and has sent to rank 0 in round 4
C15_Witness ==
    /\ AllReturned
    /\ ~MergeOverflowed
    /\ NTask = 5
    /\ ~eagerSend
    /\ [src |-> 4, dst |-> 0, sep |-> 4] \in sendLog
    /\ [src |-> 3, dst |-> 2, sep |-> 1] \in sendLog
    /\ [src |-> 2, dst |-> 0, sep |-> 2] \in sendLog

\* C16: a receiver whose NTopnodes + ntopnodes_import exceeds MaxTopNodes
\* raises errorflag instead of inserting; the flag is reduced over all ranks,
\* so every rank leaves the merge with the same errorflagall, which is 1
\* exactly when some rank has raised its flag (the caller then returns non-zero
\* on every rank and the decomposition restarts with a larger budget); the
\* merge never ends in an abort: after a passed test the tree with the
\* inserted nodes is within MaxTopNodes
C16_MergeOverflowFlag ==
    /\ pc = "merge"
    /\ \A r \in Ranks :
          /\ mrank[r].n <= MaxTopNodes
          /\ (mrank[r].errorflag = 1 /\ mrank[r].pc \in {"enter", "wait", "bcast"}) =>
                (mrank[r].import > 0 /\ mrank[r].n + mrank[r].import > MaxTopNodes)
          /\ (mrank[r].errorflag = 0 /\ RoundPartDone(r)
                /\ MergeRole(r, mrank[r].sep, NTask) = "recv") =>
                (mrank[r].import > 0 /\ mrank[r].n <= MaxTopNodes
                   /\ At(mrank[r].tree, 0).Count > 0)
          /\ mrank[r].pc \in {"bcast", "returned"} =>
                mrank[r].errorflagall
                    = (IF \E q \in Ranks : mrank[q].errorflag = 1 THEN 1 ELSE 0)

\* C16 witness: 3 ranks with room for one node: rank 0 has raised the flag in
\* round 1, rank 2 has neither received nor sent, and all three have left the
\* merge with errorflagall = 1
C16_Witness ==
    /\ AllReturned
    /\ NTask = 3
    /\ mrank[0].errorflag = 1
    /\ mrank[2].errorflag = 0
    /\ SendsOf(2) = {}
    /\ \A r \in Ranks : mrank[r].errorflagall = 1 /\ mrank[r].sep = 1

-----------------------------------------------------------------------------
(* The splitters and the assigner on their own: domain_findSplit_*_balanced *)
(* and domain_assign_balanced as lines 294-334 call them, for every array   *)
(* of per-leaf sums up to the bounds                                        *)

MaxSplitLeaves == 6
MaxLeafSum == 2
MaxSplitTask == 3
MaxOverDecomp == 3

SplitFrame == <<NTask, P, SphP, BhP, NLocal, topNodes, NTopleaves, exchange_limit, ExchangeVars,
                P0, TopNodeAllocFactor, MaxTopNodes, NTopnodes, OverDecomp, treeRet,
                overflowStage, retries, heap, domainWork, domainCount, workLoad, loadLoad,
                ForkVars, threads, MergeVars, gcP, quasar, prev>>

\* line 303: domain_findSplit_work_balanced(OverDecomp * NTask, NTopleaves, domainWork)
SplitWorkBalanced ==
    /\ pc = "findSplit"
    /\ DomainList' = domain_findSplit_work_balanced(OverDecomp * NTask, NTopleaves, domainWork)
    /\ usedLoadSplit' = FALSE
    /\ pc' = "split_done"
    /\ UNCHANGED <<SplitFrame, DomainTask, segTask>>

\* line 318: domain_findSplit_load_balanced(OverDecomp * NTask, NTopleaves, domainCount)
SplitLoadBalanced ==
    /\ pc = "findSplit"
    /\ DomainList' = domain_findSplit_load_balanced(OverDecomp * NTask, NTopleaves, domainCount)
    /\ usedLoadSplit' = TRUE
    /\ pc' = "split_done"
    /\ UNCHANGED <<SplitFrame, DomainTask, segTask>>

\* lines 884-953, called at line 307 with the work and at line 321 with the
\* counts: the lists sorted by task, the tasks in that order, and DomainTask;
\* of the orders that differ in the places of segments of equal task one is kept
AssignBalanced ==
    /\ pc = "split_done"
    /\ \E task \in domain_assign_balanced(IF usedLoadSplit THEN domainCount ELSE domainWork,
                                          DomainList) :
       \E ord \in SortedOrders(0 .. (Len(DomainList) - 1),
                               [n \in 0 .. (Len(DomainList) - 1) |-> task[n + 1]],
                               [n \in 0 .. (Len(DomainList) - 1) |-> task[n + 1]]) :
         /\ DomainList' = SortedLists(DomainList, ord)
         /\ segTask' = [k \in 1 .. Len(DomainList) |-> task[ord[k] + 1]]
         /\ DomainTask' = DomainTaskOf(DomainList, task, NTopleaves)
    /\ pc' = "assigned"
    /\ UNCHANGED <<SplitFrame, usedLoadSplit>>

NextSplit == SplitWorkBalanced \/ SplitLoadBalanced \/ AssignBalanced

\* the state at line 303: any NTask and OverDecomp up to the bounds, any
\* number of leaves from OverDecomp * NTask on (line 298 ends the run below
\* that), any per-leaf sums; the cost of a particle is 1 here, so the work of
\* a leaf is its count
InitSplit ==
    /\ pc = "findSplit"
    /\ NTask \in 1 .. MaxSplitTask
    /\ OverDecomp \in 1 .. MaxOverDecomp
    /\ NTopleaves \in 1 .. MaxSplitLeaves
    /\ OverDecomp * NTask <= NTopleaves
    /\ domainCount \in [1 .. NTopleaves -> 0 .. MaxLeafSum]
    /\ domainWork = domainCount
    /\ DomainList = << >> /\ segTask = << >> /\ DomainTask = << >>
    /\ P = [r \in RanksOf(NTask) |-> << >>]
    /\ SphP = P /\ BhP = P
    /\ NLocal = [r \in RanksOf(NTask) |-> domain_count_particles(P[r])]
    /\ P0 = P
    /\ topNodes = << >>
    /\ exchange_limit = [r \in RanksOf(NTask) |-> BigLimit]
    /\ toGo = [r \in RanksOf(NTask) |-> Zero(NTask)]
    /\ toGoSph = toGo /\ toGoBh = toGo /\ toGet = toGo /\ toGetSph = toGo /\ toGetBh = toGo
    /\ ret = 0
    /\ iter = 0
    /\ TopNodeAllocFactor = 0 /\ MaxTopNodes = 0 /\ NTopnodes = 0
    /\ treeRet = << >> /\ overflowStage = "" /\ retries = 0
    /\ heap = DecomposeBuffers(domain_allocate(<< >>))
    /\ workLoad = -1 /\ loadLoad = -1 /\ usedLoadSplit = FALSE
    /\ ForkIdle
    /\ threads = << >> /\ mrank = << >> /\ chan = {} /\ contrib = << >>
    /\ bcastBuf = << >> /\ eagerSend = FALSE /\ sendLog = {} /\ gcP = << >>
    /\ quasar = << >>
    /\ prev = << >>

SpecSplit == InitSplit /\ [][NextSplit]_vars

\* lists is ncpu non-empty segments, contiguous and increasing, that cover
\* the leaves 0 .. ndomain - 1
IsPartition(lists, ncpu, ndomain) ==
    /\ Len(lists) = ncpu
    /\ \A k \in 1 .. Len(lists) : lists[k].start <= lists[k].end
    /\ lists[1].start = 0
    /\ lists[Len(lists)].end = ndomain - 1
    /\ \A k \in 1 .. (Len(lists) - 1) : lists[k + 1].start = lists[k].end + 1

\* C17: for every array of per-leaf sums and every ndomain >= ncpu >= 1 both
\* domain_findSplit_work_balanced and domain_findSplit_load_balanced leave
\* exactly ncpu non-empty segments in DomainStartList / DomainEndList,
\* contiguous and increasing, that cover the leaves 0 .. ndomain - 1
C17_SplitPartition ==
    pc = "split_done" => IsPartition(DomainList, OverDecomp * NTask, NTopleaves)

\* C17 witness: 4 segments over 6 leaves of which only the last holds
\* particles: the first segment stops at leaf 2 to leave a leaf for each of
\* the other three
C17_Witness ==
    /\ pc = "split_done"
    /\ usedLoadSplit
    /\ NTask = 2 /\ OverDecomp = 2
    /\ domainCount = <<0, 0, 0, 0, 0, 2>>
    /\ DomainList = <<[start |-> 0, end |-> 2], [start |-> 3, end |-> 3],
                      [start |-> 4, end |-> 4], [start |-> 5, end |-> 5]>>

\* C18: after domain_assign_balanced, for every OverDecomp >= 1 and NTask:
\* every entry of DomainTask is a rank in [0, NTask), every rank owns exactly
\* OverDecomp segments, and the lists are sorted by rank, so the entries
\* [ta * OverDecomp, (ta + 1) * OverDecomp) belong to rank ta
C18_AssignBalanced ==
    pc = "assigned" =>
        /\ Len(DomainTask) = NTopleaves
        /\ \A l \in 1 .. NTopleaves : DomainTask[l] \in Ranks
        /\ \A ta \in Ranks :
              Cardinality({k \in 1 .. Len(segTask) : segTask[k] = ta}) = OverDecomp
        /\ \A k \in 1 .. Len(segTask) : segTask[k] = (k - 1) \div OverDecomp

-----------------------------------------------------------------------------
(* Properties of the rounds of domain_exchange                              *)

\* the particles, over all ranks, whose target is another rank than the one
\* they are on
Waiting ==
    SumAll([r \in Ranks |->
              Cardinality({i \in 1 .. NumPart(r) : domain_layoutfunc(P[r][i]) # r})])

\* the test of line 1111 on rank r for the count that starts in this state
BudgetTriggered(r) == package >= CountFirst(r).nlimit

\* a round of the loop of lines 397-420 ends without abort
RoundDone == pc = "exchange_once" /\ pc' \in {"countToGo", "count_particles"}

\* the exchange is running, or has ended in one of its aborts
ExchangeRunning ==
    pc \in {"exchange", "countToGo", "exchange_once", "count_particles",
            "endrun_1", "endrun_212", "endrun_787878", "abort", "undefined_buffers"}

\* C19: domain_exchange runs another round exactly when the budget test of
\* domain_countToGo triggered on some rank in the current round; a round that
\* starts with particles waiting for export ends with fewer; and the exchange
\* is never stuck: unless it aborts it ends, and then no particle is left whose
\* target is another rank (every exchange_limit of the model exceeds one
\* package)
C19_ExchangeTermination ==
    /\ [][(pc = "countToGo" /\ pc' = "exchange_once") =>
             (ret' > 0 <=> \E r \in Ranks : BudgetTriggered(r))]_vars
    /\ [][RoundDone => (pc' = "countToGo" <=> ret > 0)]_vars
    /\ [][(RoundDone /\ Waiting > 0) => Waiting' < Waiting]_vars
    /\ [](ExchangeRunning \/ (pc = "exchange_done" /\ Waiting = 0))

-----------------------------------------------------------------------------
(* domain_Decomposition called a second time, nothing changed in between    *)

\* the configurations of the runs that are repeated
RestartConfigs == {<<FactorUnit \div 1000, 1>>, <<3 * FactorUnit, 1>>, <<3 * FactorUnit, 2>>}

\* lines 103-134 of the second call: the particles do not move, nothing is
\* collected, domain_free drops the tree; All.TopNodeAllocFactor stays as the
\* first call left it; prev keeps what the first call ended with
Restart ==
    /\ pc = "done"
    /\ prev = << >>
    /\ prev' = <<[DomainTask |-> DomainTask, topNodes |-> topNodes, P |-> P,
                  domainWork |-> domainWork, domainCount |-> domainCount,
                  TopNodeAllocFactor |-> TopNodeAllocFactor, retries |-> retries]>>
    /\ P0' = P
    /\ retries' = 0
    /\ heap' = domain_free(heap)
    /\ iter' = 0
    /\ pc' = "allocate"
    /\ UNCHANGED <<NTask, AuxVars, ForkVars, P, SphP, BhP, NLocal, TreeVars, exchange_limit,
                   toGo, toGoSph, toGoBh, toGet, toGetSph, toGetBh, ret,
                   TopNodeAllocFactor, MaxTopNodes, NTopnodes, OverDecomp, treeRet,
                   overflowStage, SplitVars>>

NextRestart == NextDecomp \/ Restart

InitRestart ==
    /\ InitDecomp
    /\ <<TopNodeAllocFactor, OverDecomp>> \in RestartConfigs

SpecRestart == InitRestart /\ [][NextRestart]_vars

\* the second call is under way or has ended
SecondRun == prev # << >>

\* no particle has a target rank other than the rank it is on
AllAtTarget ==
    \A r \in Ranks : \A i \in 1 .. NumPart(r) : domain_layoutfunc(P[r][i]) = r

\* the second call computed the layout of the first
SameLayout == DomainTask = prev[1].DomainTask /\ topNodes = prev[1].topNodes

-----------------------------------------------------------------------------
(* The share of the leaves of the final top tree                            *)

\* the node of the top tree that is leaf l
LeafNode(l) ==
    At(topNodes, CHOOSE i \in 0 .. (Len(topNodes) - 1) :
                     At(topNodes, i).Daughter = -1 /\ At(topNodes, i).Leaf = l)

\* C21: after domain_determineTopTree has succeeded and domain_sumCost has
\* run, every leaf that spans more than one key cell holds at most
\* TotNumPart / (TOPNODEFACTOR * OverDecomp * NTask) particles and at most
\* the analogous share of the cost, for every placement of the particles
C21_LeafShare ==
    domainCount # << >> =>
        \A l \in 0 .. (NTopleaves - 1) :
            LeafNode(l).Size > 1 =>
                /\ domainCount[l + 1] * (TOPNODEFACTOR * OverDecomp * NTask) <= TotNumPart
                /\ domainWork[l + 1] * (TOPNODEFACTOR * OverDecomp * NTask)
                      <= SumAll([r \in Ranks |-> GravCostOf(P[r])])

-----------------------------------------------------------------------------
(* The same particles on another distribution over the ranks, and on       *)
(* another number of ranks                                                  *)

MaxRankPart == 2
RankCounts == {1, 2, 4, 8}

\* <<All.TopNodeAllocFactor, All.DomainOverDecompositionFactor>> of these runs
RankConfigs == {<<FactorUnit \div 1000, 1>>, <<3 * FactorUnit, 1>>}

RECURSIVE Held(_, _, _, _)
\* the particles of the global list G that owner puts on rank r, from the i-th on
Held(G, owner, r, i) ==
    IF i > Len(G) THEN << >>
    ELSE (IF owner[i] = r THEN <<G[i]>> ELSE << >>) \o Held(G, owner, r, i + 1)

Distribute(G, owner, nt) == [r \in RanksOf(nt) |-> Held(G, owner, r, 1)]

\* the ways to put n particles on nt ranks, at most MaxPart on each
Distributions(n, nt) ==
    {owner \in [1 .. n -> RanksOf(nt)] :
        \A r \in RanksOf(nt) : Cardinality({i \in 1 .. n : owner[i] = r}) <= MaxPart}

\* the identifiers, over all ranks, of the particles whose key is in leaf l
LeafIds(l) ==
    UNION {{P[r][i].ID : i \in {i \in 1 .. NumPart(r) :
                                   LeafDescend(topNodes, 0, P[r][i].Key) = l}} :
             r \in Ranks}

\* the particles of all ranks as a bag of <<ID, Key, GravCost>>
GlobalBag ==
    LET all == Concat([r \in Ranks |-> [i \in 1 .. NumPart(r) |->
                         <<P[r][i].ID, P[r][i].Key, P[r][i].GravCost>>]], 0, NTask)
    IN [e \in {all[i] : i \in 1 .. Len(all)} |->
           Cardinality({i \in 1 .. Len(all) : all[i] = e})]

\* the rank-indexed variables of a run on nt ranks that starts from tables tab
FreshRun(tab, nt) ==
    /\ NTask' = nt
    /\ P' = tab
    /\ P0' = tab
    /\ SphP' = [r \in RanksOf(nt) |-> << >>]
    /\ BhP' = [r \in RanksOf(nt) |-> << >>]
    /\ NLocal' = [r \in RanksOf(nt) |-> domain_count_particles(tab[r])]
    /\ exchange_limit' = [r \in RanksOf(nt) |-> BigLimit]
    /\ toGo' = [r \in RanksOf(nt) |-> Zero(nt)]
    /\ toGoSph' = toGo' /\ toGoBh' = toGo' /\ toGet' = toGo'
    /\ toGetSph' = toGo' /\ toGetBh' = toGo'
    /\ ret' = 0 /\ iter' = 0
    /\ topNodes' = << >> /\ NTopleaves' = 0 /\ DomainTask' = << >>
    /\ MaxTopNodes' = 0 /\ NTopnodes' = 0
    /\ treeRet' = << >> /\ overflowStage' = "" /\ retries' = 0
    /\ heap' = domain_free(heap)
    /\ domainWork' = << >> /\ domainCount' = << >>
    /\ workLoad' = -1 /\ loadLoad' = -1 /\ usedLoadSplit' = FALSE

\* a second run of domain_Decomposition from line 103 with the same particles
\* on any distribution over any number of ranks; prev[1] is the global list,
\* prev[2] what the first run ended with
Redistribute ==
    /\ pc = "done"
    /\ Len(prev) = 1
    /\ prev' = Append(prev, [NTask |-> NTask, topNodes |-> topNodes,
                             NTopleaves |-> NTopleaves,
                             LeafIds |-> [l \in 0 .. (NTopleaves - 1) |-> LeafIds(l)],
                             GlobalBag |-> GlobalBag])
    /\ \E nt \in RankCounts : \E owner \in Distributions(Len(prev[1].G), nt) :
          FreshRun(Distribute(prev[1].G, owner, nt), nt)
    /\ pc' = "allocate"
    /\ UNCHANGED <<AuxVars, ForkVars, TopNodeAllocFactor, OverDecomp>>

NextRanks == NextDecomp \/ Redistribute

\* up to MaxRankPart particles on 1, 2, 4 or 8 ranks, at line 134
InitRanks ==
    /\ pc = "allocate"
    /\ NTask \in RankCounts
    /\ \E kinds \in SeqsUpTo(DecompKinds, MaxRankPart) :
         /\ \A i, j \in 1 .. Len(kinds) : i < j => KindRank(kinds[i]) <= KindRank(kinds[j])
         /\ prev = <<[G |-> DecompTable(kinds, 0)]>>
    /\ \E owner \in Distributions(Len(prev[1].G), NTask) :
         P = Distribute(prev[1].G, owner, NTask)
    /\ SphP = [r \in RanksOf(NTask) |-> << >>]
    /\ BhP = [r \in RanksOf(NTask) |-> << >>]
    /\ NLocal = [r \in RanksOf(NTask) |-> domain_count_particles(P[r])]
    /\ topNodes = << >>
    /\ NTopleaves = 0
    /\ DomainTask = << >>
    /\ exchange_limit = [r \in RanksOf(NTask) |-> BigLimit]
    /\ toGo = [r \in RanksOf(NTask) |-> Zero(NTask)]
    /\ toGoSph = toGo /\ toGoBh = toGo /\ toGet = toGo /\ toGetSph = toGo /\ toGetBh = toGo
    /\ ret = 0
    /\ iter = 0
    /\ P0 = P
    /\ \E c \in RankConfigs : TopNodeAllocFactor = c[1] /\ OverDecomp = c[2]
    /\ MaxTopNodes = 0 /\ NTopnodes = 0
    /\ treeRet = << >> /\ overflowStage = "" /\ retries = 0 /\ heap = << >>
    /\ domainWork = << >> /\ domainCount = << >>
    /\ workLoad = -1 /\ loadLoad = -1 /\ usedLoadSplit = FALSE
    /\ ForkIdle
    /\ AuxIdle

SpecRanks == InitRanks /\ [][NextRanks]_vars

\* the tree build and the leaf count of this run are done
TreeDone == pc \in {"exchange", "countToGo", "exchange_once", "count_particles",
                    "exchange_done", "done"}

\* C22: for the same global particle set the top tree, the ordinals of its
\* leaves and the identifiers in the key range of every leaf do not depend on
\* how the particles lie on the ranks before the decomposition (two runs on
\* the same number of ranks), and runs on 1, 2, 4 and 8 ranks end with the
\* same global particles
C22_RankDeterminism ==
    /\ (Len(prev) = 2 /\ TreeDone /\ NTask = prev[2].NTask) =>
          /\ topNodes = prev[2].topNodes
          /\ NTopleaves = prev[2].NTopleaves
          /\ [l \in 0 .. (NTopleaves - 1) |-> LeafIds(l)] = prev[2].LeafIds
    /\ (Len(prev) = 2 /\ pc = "done") => GlobalBag = prev[2].GlobalBag
    /\ (Len(prev) >= 1 /\ pc = "done") =>
          GlobalBag = [e \in {<<prev[1].G[i].ID, prev[1].G[i].Key, prev[1].G[i].GravCost>> :
                                i \in 1 .. Len(prev[1].G)} |-> 1]

\* C22 witness: a second run on 2 ranks, after a first run on 2 ranks, has
\* ended: it started with two particles of different cells each on the rank
\* the other one belongs to, and has swapped them
C22_Witness ==
    /\ Len(prev) = 2
    /\ pc = "done"
    /\ NTask = 2 /\ prev[2].NTask = 2
    /\ Len(prev[1].G) = 2
    /\ prev[1].G[1].Key # prev[1].G[2].Key
    /\ P0[0] = <<prev[1].G[2]>> /\ P0[1] = <<prev[1].G[1]>>
    /\ NTopleaves = 8
    /\ NumPart(0) = 1 /\ P[0][1].ID = prev[1].G[1].ID
    /\ NumPart(1) = 1 /\ P[1][1].ID = prev[1].G[2].ID

-----------------------------------------------------------------------------
(* The balance of the assignment                                            *)

\* every leaf has the same, non-zero work
UniformWork == \A l \in 1 .. NTopleaves : domainWork[l] = domainWork[1] /\ domainWork[l] > 0

\* C23: on inputs with equal work per leaf the work-balanced split followed
\* by domain_assign_balanced gives no rank more than (1 + 1 / OverDecomp)
\* times the average work per rank
C23_WorkBalance ==
    (pc = "assigned" /\ ~usedLoadSplit /\ UniformWork) =>
        \A r \in Ranks :
            OwnerLoad(DomainTask, domainWork, r) * NTask * OverDecomp
                <= SumSeq(domainWork) * (OverDecomp + 1)

-----------------------------------------------------------------------------
(* Table bounds during the exchange                                         *)

\* C24: in every round of domain_exchange the tables of every rank stay
\* within their bounds after the receipt (NumPart <= MaxPart, N_sph_slots <=
\* MaxPart, N_bh_slots <= MaxPartBh), and the exchange never ends in the
\* table-overflow abort of domain_exchange_once, given a layout that assigns
\* no rank more than MaxPart particles
C24_NoTableOverflow ==
    /\ pc # "endrun_787878"
    /\ \A r \in Ranks :
          /\ NumPart(r) <= MaxPart
          /\ N_sph_slots(r) <= MaxPart
          /\ N_bh_slots(r) <= MaxPartBh

-----------------------------------------------------------------------------
(* The counts at transfer time                                              *)

\* entries of rank r in the tables tab that are marked for export to rank j
\* and have a type in types
FlaggedFor(tab, r, j, types) ==
    Cardinality({i \in 1 .. Len(tab[r]) :
                    /\ tab[r][i].WillExport = 1
                    /\ domain_layoutfunc(tab[r][i]) = j
                    /\ tab[r][i].Type \in types})

\* the counts of s agree between sender and receiver and with the marks
CountsAgree(s) ==
    \A i, j \in Ranks :
        /\ s.toGet[j][i] = s.toGo[i][j]
        /\ s.toGetSph[j][i] = s.toGoSph[i][j]
        /\ s.toGetBh[j][i] = s.toGoBh[i][j]
        /\ FlaggedFor(s.P, i, j, Types) = s.toGo[i][j]
        /\ FlaggedFor(s.P, i, j, {0}) = s.toGoSph[i][j]
        /\ FlaggedFor(s.P, i, j, {5}) = s.toGoBh[i][j]

\* what the receive-side loop may take from the counts of every rank for
\* every target: nothing, one gas particle, one black hole, or one particle
ShedChoices == {<<0, 0, 0>>, <<0, 1, 0>>, <<0, 0, 1>>, <<1, 0, 0>>}
ShedBy(m, d) == [r \in Ranks |-> [t \in Ranks |-> IF m[r][t] > d THEN m[r][t] - d ELSE 0]]

\* the state of domain_countToGo after the first pass first, with the counts
\* reduced by d
AfterShedding(first, d) ==
    [P |-> [r \in Ranks |-> first[r].P],
     toGo |-> ShedBy([r \in Ranks |-> first[r].toGo], d[1]),
     toGoSph |-> ShedBy([r \in Ranks |-> first[r].toGoSph], d[2]),
     toGoBh |-> ShedBy([r \in Ranks |-> first[r].toGoBh], d[3]),
     toGet |-> Alltoall([r \in Ranks |-> first[r].toGo]),
     toGetSph |-> Alltoall([r \in Ranks |-> first[r].toGoSph]),
     toGetBh |-> Alltoall([r \in Ranks |-> first[r].toGoBh])]

\* C25: whenever domain_exchange_once runs, toGet[i] on rank j equals toGo[j]
\* on rank i, for all particles, for gas and for black holes, and on every
\* rank the entries marked WillExport with target j are toGo[j] in number,
\* toGoSph[j] of them gas and toGoBh[j] of them black holes; the recount that
\* follows a reduction of the counts by the receive-side loop gives counts
\* and marks that agree in the same way
C25_CountsAgree ==
    /\ pc = "exchange_once" =>
          CountsAgree([P |-> P, toGo |-> toGo, toGoSph |-> toGoSph, toGoBh |-> toGoBh,
                       toGet |-> toGet, toGetSph |-> toGetSph, toGetBh |-> toGetBh])
    /\ (pc = "countToGo" /\ \A r \in Ranks : package < exchange_limit[r]) =>
          \A first \in {[r \in Ranks |-> CountFirst(r)]} :
             \A d \in ShedChoices :
                \A s \in {Recount(AfterShedding(first, d))} : CountsAgree(s)

\* C25 witness: domain_exchange_once is about to run in a second round, with
\* a gas particle going one way and a black hole going the other way
C25_Witness ==
    /\ pc = "exchange_once"
    /\ iter >= 1
    /\ \E i, j \in Ranks :
          /\ i # j
          /\ toGoSph[i][j] >= 1
          /\ toGoBh[j][i] >= 1

-----------------------------------------------------------------------------
(* The gas prefix through an exchange round                                 *)

\* in the tables tab, slots the type-0 entries of rank r are exactly the
\* first Len(slots[r]) entries, each with the gas slot of its own identifier
GasDense(tab, slots, r) ==
    /\ Len(slots[r]) <= Len(tab[r])
    /\ \A i \in 1 .. Len(tab[r]) : tab[r][i].Type = 0 <=> i <= Len(slots[r])
    /\ \A i \in 1 .. Len(slots[r]) : slots[r][i].ID = tab[r][i].ID

\* C26: a round of domain_exchange_once that starts with the type-0 entries
\* of every rank being exactly P[0..N_sph_slots), each with its own gas slot,
\* ends with them being so again: export compaction, the upward shift of the
\* non-gas entries and the receipt keep the prefix dense and keep SphP[i]
\* with P[i]
C26_GasPrefix ==
    [][(pc = "exchange_once" /\ \A r \in Ranks : GasDense(P, SphP, r))
          => \A r \in Ranks : GasDense(P', SphP', r)]_vars

\* C26 witness: after a round a rank that has exported a gas particle holds
\* a gas particle of its own, a received gas particle and a particle of
\* another type that it had before
C26_Witness ==
    /\ iter >= 1
    /\ pc \in {"countToGo", "count_particles"}
    /\ \E r \in Ranks :
          /\ \E i \in 1 .. Len(P0[r]) : P0[r][i].Type = 0 /\ ~OnRank(P, r, P0[r][i].ID)
          /\ \E i \in 1 .. Len(P[r]) : P[r][i].Type = 0 /\ OnRank(P0, r, P[r][i].ID)
          /\ \E i \in 1 .. Len(P[r]) : P[r][i].Type = 0 /\ ~OnRank(P0, r, P[r][i].ID)
          /\ \E i \in 1 .. Len(P[r]) : P[r][i].Type # 0 /\ OnRank(P0, r, P[r][i].ID)

-----------------------------------------------------------------------------
(* The black-hole links through an exchange round                           *)

\* every type-5 entry of rank r in tab has a PI that indexes a slot of
\* slots[r] with its identifier
BhLinked(tab, slots, r) ==
    \A i \in 1 .. Len(tab[r]) :
        tab[r][i].Type = 5 =>
            /\ tab[r][i].PI \in 0 .. (Len(slots[r]) - 1)
            /\ At(slots[r], tab[r][i].PI).ID = tab[r][i].ID

\* the type-5 entries of now[r] that were on rank src in before, in the
\* order they have in now[r]
BhFrom(before, now, r, src) ==
    SelectSeq(now[r], LAMBDA p : p.Type = 5 /\ OnRank(before, src, p.ID))

-----------------------------------------------------------------------------
(* The three passes of the collection, one by one                           *)

\* the tables of rank r after the first pass, and after the second
AfterReclaim(r) == domain_sph_garbage_collection_reclaim(CollectInput(r))
AfterAll(r) == domain_all_garbage_collection(AfterReclaim(r))

\* the sum of N_bh_slots over the ranks when the collection starts
BhTotal0 == SumAll([q \in Ranks |-> N_bh_slots(q)])

\* the positions of the type-5 entries of a table
BhEntries(Pr) == {n \in 1 .. Len(Pr) : Pr[n].Type = 5}

\* the tables out are the tables in with the black-hole slots compacted
BhCompacted(in, out) ==
    /\ Len(out.BhP) = Cardinality(BhEntries(out.P))
    /\ {out.P[n].PI : n \in BhEntries(out.P)} = 0 .. (Len(out.BhP) - 1)
    /\ \A n, k \in BhEntries(out.P) : n < k => out.P[n].PI < out.P[k].PI
    /\ \A n \in BhEntries(out.P) :
          /\ At(out.BhP, out.P[n].PI).ID = out.P[n].ID
          /\ At(out.BhP, out.P[n].PI) = [At(in.BhP, in.P[n].PI) EXCEPT !.ReverseLink = -1]
    /\ \A k \in 1 .. Len(out.BhP) : out.BhP[k].ReverseLink = -1
    /\ Len(out.P) = Len(in.P)
    /\ \A n \in 1 .. Len(in.P) : [out.P[n] EXCEPT !.PI = in.P[n].PI] = in.P[n]

\* the table Pr with the link of entry n set to q
Relinked(in, n, q) == [in EXCEPT !.P[n].PI = q]

\* C28: when there are black-hole slots on some rank, the last pass of the
\* collection leaves every rank with N_bh_slots equal to the number of its
\* type-5 entries, PI a bijection from these onto [0, N_bh_slots) that
\* follows the order of the base table, every entry with the slot it had,
\* every ReverseLink -1, and the base table in the order it was; and the
\* pass ends in endrun(1) for a table in which a type-5 entry has a PI at or
\* beyond N_bh_slots or the PI of a slot with another identifier
C28_BhCompaction ==
    [][(pc \in {"collaborate", "mutated"} /\ pc' \notin {"collaborate", "mutated"}
          /\ BhTotal0 > 0)
          => \A r \in Ranks :
                AfterAll(r).end = "" =>
                   /\ pc' = "collected" =>
                         BhCompacted(AfterAll(r), [P |-> P'[r], BhP |-> BhP'[r]])
                   /\ \A n \in BhEntries(AfterAll(r).P) :
                         \A q \in (0 .. (MaxPartBh - 1)) \ {AfterAll(r).P[n].PI} :
                            domain_bh_garbage_collection(
                                Relinked(AfterAll(r), n, q), BhTotal0).end = "endrun_1"]_vars

\* C28 witness: the collection has run on a rank whose two black holes have
\* changed places in the base table, and has exchanged their slots
C28_Witness ==
    /\ pc = "collected"
    /\ \E r \in Ranks :
          /\ Cardinality(BhEntries(P[r])) = 2
          /\ \E n, k \in BhEntries(P[r]) : \E gn, gk \in BhEntries(gcP[r]) :
                /\ n < k /\ gk < gn
                /\ gcP[r][gn].ID = P[r][n].ID /\ gcP[r][gk].ID = P[r][k].ID
                /\ gcP[r][gn].PI > gcP[r][gk].PI
                /\ P[r][n].PI < P[r][k].PI

-----------------------------------------------------------------------------
(* The mass-zero pass                                                       *)

\* the positions of the entries of a table with mass 0, and with mass 0,
\* type in types and time bin b
Dead(Pr) == {n \in 1 .. Len(Pr) : Pr[n].Mass = 0}
DeadIn(Pr, types, b) == {n \in Dead(Pr) : Pr[n].Type \in types /\ Pr[n].TimeBin = b}

\* the type-0 entries of the tables st are exactly the first N_sph_slots
\* entries, each with the gas slot of its identifier
GasPrefix(st) == GasDense(<<st.P>>, <<st.SphP>>, 1)

\* the tables out are the tables in without the entries of mass 0
MassZeroEliminated(in, out) ==
    /\ out.end = ""
    /\ Dead(out.P) = {}
    /\ Len(out.P) = Len(in.P) - Cardinality(Dead(in.P))
    /\ \A n \in (1 .. Len(in.P)) \ Dead(in.P) :
          Cardinality({k \in 1 .. Len(out.P) : out.P[k] = in.P[n]}) = 1
    /\ Len(out.SphP) = Len(in.SphP) - Cardinality({n \in Dead(in.P) : in.P[n].Type = 0})
    /\ GasPrefix(out)
    /\ \A b \in 0 .. TimeBins :
          /\ out.TimeBinCount[b] = in.TimeBinCount[b] - Cardinality(DeadIn(in.P, Types, b))
          /\ out.TimeBinCountSph[b] = in.TimeBinCountSph[b] - Cardinality(DeadIn(in.P, {0}, b))

\* C29: the second pass of the collection leaves no entry of mass 0, lowers
\* NumPart by the number of such entries, keeps every other entry exactly
\* once, lowers N_sph_slots by the number of removed type-0 entries, leaves
\* the type-0 entries as the prefix [0, N_sph_slots), each with its own gas
\* slot, and lowers TimeBinCount, and TimeBinCountSph for gas, of the time
\* bin of each removed entry by one
C29_MassZeroEliminated ==
    pc \in {"collaborate", "mutated"} =>
        \A r \in Ranks : MassZeroEliminated(AfterReclaim(r), AfterAll(r))

-----------------------------------------------------------------------------
(* The gas reclaim                                                          *)

\* the positions inside the gas prefix of the tables st whose entry is not gas
NonGasInPrefix(st) == {n \in 1 .. Len(st.SphP) : st.P[n].Type # 0}

\* the tables out are the tables in with the non-gas entries moved out of the
\* gas prefix
Reclaimed(in, out) ==
    /\ Len(out.SphP) <= Len(out.P)
    /\ \A n \in 1 .. Len(out.SphP) : out.P[n].Type = 0
    /\ Len(out.SphP) = Len(in.SphP) - Cardinality(NonGasInPrefix(in))
    /\ Len(out.P) = Len(in.P)
    /\ \A n \in 1 .. Len(in.P) :
          Cardinality({k \in 1 .. Len(out.P) : out.P[k] = in.P[n]}) = 1
    /\ \A n \in 1 .. Len(out.SphP) :
          \E k \in 1 .. Len(in.SphP) : in.P[k] = out.P[n] /\ in.SphP[k] = out.SphP[n]

\* C30: the first pass of the collection leaves only type-0 entries in
\* P[0..N_sph_slots), lowers N_sph_slots by the number of entries of another
\* type that were inside the prefix, loses and duplicates no base entry, and
\* leaves every gas entry of the prefix with the gas slot it had
C30_GasReclaim ==
    [][(pc \in {"collaborate", "mutated"} /\ pc' \notin {"collaborate", "mutated"})
          => \A r \in Ranks : Reclaimed(CollectInput(r), AfterReclaim(r))]_vars

\* C30 witness: the collection has run on a rank whose first entry had become
\* a star and whose second entry was live gas: the gas entry is now first
C30_Witness ==
    /\ pc = "collected"
    /\ \E r \in Ranks :
          /\ Len(gcP[r]) >= 2
          /\ gcP[r][1].Type = 4 /\ gcP[r][1].Mass # 0
          /\ gcP[r][2].Type = 0 /\ gcP[r][2].Mass # 0
          /\ P[r][1] = gcP[r][2]
          /\ N_sph_slots(r) = CountType(P0[r], 0) - 1

-----------------------------------------------------------------------------
(* The value domain_garbage_collection returns                              *)

\* lines 1945-1956: what domain_all_garbage_collection returns, on every
\* rank: 1 when the sum of NumPart over the ranks has changed
domain_all_garbage_collection_ret ==
    IF SumAll([q \in Ranks |-> Len(AfterAll(q).P)])
         # SumAll([q \in Ranks |-> Len(AfterReclaim(q).P)])
    THEN 1 ELSE 0

\* a combination of flags that needs both
BitAnd(a, b) == IF a # 0 /\ b # 0 THEN 1 ELSE 0

\* tree_invalid |= ...
BitOr(a, b) == IF a # 0 \/ b # 0 THEN 1 ELSE 0

\* lines 1843-1851: the return value of domain_garbage_collection on every
\* rank; domain_bh_garbage_collection returns 0 (line 777)
domain_garbage_collection_ret ==
    MPI_Allreduce([r \in Ranks |->
                      BitOr(BitOr(AfterReclaim(r).tree_invalid,
                                  domain_all_garbage_collection_ret), 0)],
                  "SUM")

\* the gas reclaim has taken an entry out of the prefix of rank q, the
\* mass-zero pass has removed an entry of rank q
ReclaimActed(q) == Len(AfterReclaim(q).SphP) < Len(SphP[q])
AllActed(q) == Len(AfterAll(q).P) < Len(AfterReclaim(q).P)

\* a base table without its links to black-hole slots
NoLinks(Pr) == [n \in 1 .. Len(Pr) |-> [Pr[n] EXCEPT !.PI = 0]]

-----------------------------------------------------------------------------
(* The local refinement                                                     *)

\* node n of a local tree concentrates load: it is the root and holds all
\* the particles of the rank, or it holds more than 80% of the count or of
\* the cost of its parent
Concentrates(tree, n) ==
    IF At(tree, n).Parent < 0 THEN At(tree, n).Count > 0
    ELSE \/ 10 * At(tree, n).Count > 8 * At(tree, At(tree, n).Parent).Count
         \/ 10 * At(tree, n).Cost > 8 * At(tree, At(tree, n).Parent).Cost

\* node n has 8 daughters of Size/8 that partition its key interval, whose
\* Counts sum to its Count and count the particles of their key ranges
OpenedByKey(tree, n, Pr) ==
    LET d == At(tree, n).Daughter
    IN /\ d >= 0 /\ d + 7 < Len(tree)
       /\ \A j \in 0 .. 7 :
             /\ At(tree, d + j).Size * 8 = At(tree, n).Size
             /\ At(tree, d + j).StartKey = At(tree, n).StartKey + j * At(tree, d + j).Size
             /\ At(tree, d + j).Count =
                   Cardinality({i \in 1 .. Len(Pr) :
                                   /\ Pr[i].Key >= At(tree, d + j).StartKey
                                   /\ Pr[i].Key < At(tree, d + j).StartKey + At(tree, d + j).Size})
       /\ SumSeq([j \in 1 .. 8 |-> At(tree, d + j - 1).Count]) = At(tree, n).Count

\* C32: started at the root that holds all the particles of a rank,
\* domain_check_for_local_refine opens every node that concentrates load and
\* spans 8 key cells or more, into 8 daughters of Size/8 that partition its
\* key interval and share its particles by key, and it returns 1 exactly
\* when such an opening does not fit in MaxTopNodes
C32_LocalRefine ==
    pc = "allocate" =>
        \A r \in Ranks :
            \A lt \in {LocalTree(r, MaxTopNodesOf(TopNodeAllocFactor))} :
                /\ lt.err = 0 =>
                      \A n \in 0 .. (Len(lt.tree) - 1) :
                          (At(lt.tree, n).Size >= 8 /\ Concentrates(lt.tree, n))
                              => OpenedByKey(lt.tree, n, P[r])
                /\ lt.err = 1 <=>
                      \E n \in 0 .. (Len(lt.tree) - 1) :
                          /\ At(lt.tree, n).Size >= 8 /\ Concentrates(lt.tree, n)
                          /\ At(lt.tree, n).Daughter < 0

-----------------------------------------------------------------------------
(* domain_insertnode on trees with several levels                           *)

\* most insertions into one receiving tree (rounds of a merge of 8 ranks)
MaxInserts == 2

\* the cost of one particle, 8 ^ PeanoBits as in domain_particle_costfactor, so that the divisions by 8
\* of the double Cost are exact in integers
CostUnit == PEANOCELLS

\* particles of the keys in [start, start + size)
CountIn(keys, start, size) ==
    Cardinality({i \in 1 .. Len(keys) : keys[i] >= start /\ keys[i] < start + size})

\* a node over [start, start + size) holding the particles of keys
KeyNode(keys, start, size, parent) ==
    [Size |-> size, StartKey |-> start, Count |-> CountIn(keys, start, size),
     Cost |-> CostUnit * CountIn(keys, start, size),
     Daughter |-> -1, Parent |-> parent, PIndex |-> 0, Leaf |-> 0]

\* the 8 daughters of node no of tree, appended as lines 1394-1413 and
\* 1776-1797 store them
OpenKeys(tree, no, keys) ==
    Upd(tree, no, [At(tree, no) EXCEPT !.Daughter = Len(tree)])
      \o [j \in 1 .. 8 |->
            KeyNode(keys, At(tree, no).StartKey + (j - 1) * (At(tree, no).Size \div 8),
                    At(tree, no).Size \div 8, no)]

RECURSIVE OpenAll(_, _, _)
\* the daughters of the root, then of the daughters open[1], open[2], ...
OpenAll(tree, open, keys) ==
    IF open = << >> THEN tree
    ELSE OpenAll(OpenKeys(tree, 1 + open[1], keys), Tail(open), keys)

\* shape.root = 0: the root alone; otherwise the root with its daughters, of
\* which those of shape.open have daughters too
TreeOf(shape, keys) ==
    IF shape.root = 0 THEN <<KeyNode(keys, 0, PEANOCELLS, -1)>>
    ELSE OpenAll(OpenKeys(<<KeyNode(keys, 0, PEANOCELLS, -1)>>, 0, keys), shape.open, keys)

InsertShapes ==
    {[root |-> 0, open |-> << >>]}
       \cup {[root |-> 1, open |-> o] : o \in {<< >>, <<0>>, <<7>>, <<0, 7>>}}

\* the keys of the particles of two ranks, at most MaxPart on each
InsertKeys == {<< >>, <<0, 0, 0, 0, 0, 0>>, <<0, 9, 63>>, <<56, 57, 63, 63>>}

InsertTrees == {TreeOf(s, k) : s \in InsertShapes, k \in InsertKeys}

\* the particles of keys that rank r holds: every second one
RankKinds(keys, r) == [i \in 1 .. ((Len(keys) + 1 - r) \div 2) |-> <<keys[2 * i - 1 + r], 0>>]

\* MaxTopNodes: room for two trees of three levels or not, or for every node
\* down to the key cells
InsertBudgets == {26, 80}

\* All.DomainOverDecompositionFactor: limits of a half and of a sixteenth of
\* the total on 2 ranks
InsertOverDecomp == {1, 8}

\* lines 1497-1509 on the receiving rank: the import must fit, then
\* domain_insertnode(topNodes, topNodes_import, 0, 0)
InsertTree(import) ==
    /\ pc = "insert"
    /\ iter < MaxInserts
    /\ prev' = <<[A |-> topNodes, B |-> import]>>
    /\ iter' = iter + 1
    /\ IF Len(topNodes) + Len(import) > MaxTopNodes
       THEN /\ pc' = "errorflag"
            /\ UNCHANGED <<topNodes, NTopnodes>>
       ELSE \E s \in {MergeInsert(topNodes, Len(topNodes), import, MaxTopNodes)} :
              /\ topNodes' = s.tree
              /\ NTopnodes' = Len(s.tree)
              /\ pc' = IF s.fatal # "" THEN s.fatal ELSE "insert"
    /\ UNCHANGED <<NTask, P, SphP, BhP, NLocal, NTopleaves, DomainTask, exchange_limit,
                   toGo, toGoSph, toGoBh, toGet, toGetSph, toGetBh, ret, P0,
                   TopNodeAllocFactor, MaxTopNodes, OverDecomp, treeRet, overflowStage,
                   retries, heap, domainWork, domainCount, workLoad, loadLoad, usedLoadSplit,
                   ForkVars, AuxVars>>

\* lines 1586-1587 with TotNumPart and totgravcost as the root holds them
\* after the merge of all ranks
AdaptLimits(tree) ==
    [max |-> MaxTopNodes, q |-> TOPNODEFACTOR * OverDecomp * NTask,
     totcount |-> At(tree, 0).Count, totcost |-> At(tree, 0).Cost]

\* lines 1636-1674 on the tree the merge has left on every rank
Adapt ==
    /\ pc = "insert"
    /\ prev' = <<[A |-> topNodes, B |-> << >>]>>
    /\ \E a \in {AdaptLoop([tree |-> topNodes, err |-> 0], 0, AdaptLimits(topNodes))} :
         /\ topNodes' = a.tree
         /\ NTopnodes' = Len(a.tree)
         /\ treeRet' = MPI_Allreduce([r \in Ranks |-> a.err], "SUM")
         /\ pc' = IF a.err # 0 THEN "adapt_overflow" ELSE "adapted"
    /\ UNCHANGED <<NTask, P, SphP, BhP, NLocal, NTopleaves, DomainTask, exchange_limit,
                   ExchangeVars, P0, TopNodeAllocFactor, MaxTopNodes, OverDecomp,
                   overflowStage, retries, heap, domainWork, domainCount, workLoad, loadLoad,
                   usedLoadSplit, ForkVars, AuxVars>>

\* lines 294-295: domain_sumCost on the tree the adaptation has left
SumCost ==
    /\ pc = "adapted"
    /\ \E sc \in {domain_sumCost(topNodes)} :
         /\ topNodes' = sc.tree
         /\ NTopleaves' = sc.NTopleaves
         /\ domainWork' = sc.domainWork
         /\ domainCount' = sc.domainCount
    /\ pc' = "summed"
    /\ UNCHANGED <<NTask, P, SphP, BhP, NLocal, DomainTask, exchange_limit, ExchangeVars, P0,
                   TopNodeAllocFactor, MaxTopNodes, NTopnodes, OverDecomp, treeRet,
                   overflowStage, retries, heap, workLoad, loadLoad, usedLoadSplit, ForkVars,
                   AuxVars, prev>>

NextInsert == (\E import \in InsertTrees : InsertTree(import)) \/ Adapt \/ SumCost

\* a receiving rank holding a well-formed tree over the particles of two
\* ranks, before the first import (line 1606); without an import it is the
\* tree all ranks hold after the merge (line 1636)
InitInsert ==
    /\ pc = "insert"
    /\ NTask = 2
    /\ \E s \in InsertShapes, k \in InsertKeys :
         /\ topNodes = TreeOf(s, k)
         /\ P = [r \in RanksOf(NTask) |-> DecompTable(RankKinds(k, r), r * MaxPart)]
    /\ NTopnodes = Len(topNodes)
    /\ MaxTopNodes \in InsertBudgets
    /\ prev = << >>
    /\ iter = 0
    /\ SphP = [r \in RanksOf(NTask) |-> << >>]
    /\ BhP = SphP
    /\ NLocal = [r \in RanksOf(NTask) |-> domain_count_particles(P[r])]
    /\ NTopleaves = 0
    /\ DomainTask = << >>
    /\ exchange_limit = [r \in RanksOf(NTask) |-> BigLimit]
    /\ toGo = [r \in RanksOf(NTask) |-> Zero(NTask)]
    /\ toGoSph = toGo /\ toGoBh = toGo /\ toGet = toGo /\ toGetSph = toGo /\ toGetBh = toGo
    /\ ret = 0
    /\ P0 = P
    /\ TopNodeAllocFactor = 0 /\ OverDecomp \in InsertOverDecomp
    /\ treeRet = << >> /\ overflowStage = "" /\ retries = 0
    /\ heap = DecomposeBuffers(domain_allocate(<< >>))
    /\ domainWork = << >> /\ domainCount = << >>
    /\ workLoad = -1 /\ loadLoad = -1 /\ usedLoadSplit = FALSE
    /\ ForkIdle
    /\ AuxIdle

SpecInsert == InitInsert /\ [][NextInsert]_vars

\* the daughters of every node with daughters are 8 nodes of Size / 8 that
\* partition its key interval, and the root spans [0, PEANOCELLS)
WellFormed(tree) ==
    /\ Len(tree) >= 1
    /\ At(tree, 0).StartKey = 0 /\ At(tree, 0).Size = PEANOCELLS
    /\ \A n \in 0 .. (Len(tree) - 1) :
          At(tree, n).Daughter >= 0 =>
             /\ At(tree, n).Daughter + 8 <= Len(tree)
             /\ \A j \in 0 .. 7 :
                  /\ At(tree, At(tree, n).Daughter + j).Size * 8 = At(tree, n).Size
                  /\ At(tree, At(tree, n).Daughter + j).StartKey
                        = At(tree, n).StartKey + j * (At(tree, n).Size \div 8)

DaughterCounts(tree, n) ==
    SumSeq([j \in 1 .. 8 |-> At(tree, At(tree, n).Daughter + j - 1).Count])

DaughterCosts(tree, n) ==
    SumSeq([j \in 1 .. 8 |-> At(tree, At(tree, n).Daughter + j - 1).Cost])

\* every node with daughters holds the sum of its daughters' Counts
CountConsistent(tree) ==
    \A n \in 0 .. (Len(tree) - 1) :
        At(tree, n).Daughter >= 0 => At(tree, n).Count = DaughterCounts(tree, n)

\* the node of tree over [start, start + size), or -1
NodeOver(tree, start, size) ==
    IF \E n \in 0 .. (Len(tree) - 1) :
          At(tree, n).StartKey = start /\ At(tree, n).Size = size
    THEN CHOOSE n \in 0 .. (Len(tree) - 1) :
          At(tree, n).StartKey = start /\ At(tree, n).Size = size
    ELSE -1

RECURSIVE CountShare(_, _, _)
\* what tree holds for [start, start + size): the Count of its node there, or
\* the share of the leaf above: an eighth, the first daughter the remainder too
CountShare(tree, start, size) ==
    IF NodeOver(tree, start, size) >= 0 THEN At(tree, NodeOver(tree, start, size)).Count
    ELSE LET up == CountShare(tree, start - (start % (8 * size)), 8 * size)
         IN IF start % (8 * size) = 0 THEN up - 7 * (up \div 8) ELSE up \div 8

RECURSIVE CostShare(_, _, _)
CostShare(tree, start, size) ==
    IF NodeOver(tree, start, size) >= 0 THEN At(tree, NodeOver(tree, start, size)).Cost
    ELSE CostShare(tree, start - (start % (8 * size)), 8 * size) \div 8

\* C33: an insertion of a tree B into a tree A that fits leaves, at every
\* node of the result, the Count (Cost) A held for the node's key range plus
\* the Count (Cost) B held for it, where a tree without a node for the range
\* holds the share of its leaf above (an eighth per level, the first daughter
\* the remainder too); so the root holds the sum of the two root Counts, and if
\* in A and in B every node with daughters holds the sum of its daughters'
\* Counts, so it is in the result
C33_MergeCounts ==
    (pc = "insert" /\ prev # << >>) =>
        /\ \A n \in 0 .. (Len(topNodes) - 1) :
              /\ At(topNodes, n).Count
                    = CountShare(prev[1].A, At(topNodes, n).StartKey, At(topNodes, n).Size)
                        + CountShare(prev[1].B, At(topNodes, n).StartKey, At(topNodes, n).Size)
              /\ At(topNodes, n).Cost
                    = CostShare(prev[1].A, At(topNodes, n).StartKey, At(topNodes, n).Size)
                        + CostShare(prev[1].B, At(topNodes, n).StartKey, At(topNodes, n).Size)
        /\ At(topNodes, 0).Count = At(prev[1].A, 0).Count + At(prev[1].B, 0).Count
        /\ At(topNodes, 0).Cost = At(prev[1].A, 0).Cost + At(prev[1].B, 0).Cost
        /\ (CountConsistent(prev[1].A) /\ CountConsistent(prev[1].B))
              => CountConsistent(topNodes)

\* C33 witness: the receiving tree had daughters below its last daughter only
\* and 12 particles in its first, the import daughters below its first only
\* and 4 particles in its last: the insertion has
\* opened the first daughter of the receiving tree and spread the import's
\* last daughter over the receiving tree's nodes below it
C33_Witness ==
    /\ pc = "insert" /\ prev # << >>
    /\ Len(prev[1].A) = 17 /\ At(prev[1].A, 8).Daughter = 9
    /\ At(prev[1].A, 1).Count = 12
    /\ Len(prev[1].B) = 17 /\ At(prev[1].B, 1).Daughter = 9
    /\ At(prev[1].B, 8).Count = 4 /\ At(prev[1].B, 1).Count = 0
    /\ Len(topNodes) = 25
    /\ At(topNodes, 1).Daughter = 17
    /\ At(topNodes, 17).Count = 5 /\ At(topNodes, 18).Count = 1
    /\ At(topNodes, 9).Count = 4
    /\ CountConsistent(prev[1].A) /\ CountConsistent(prev[1].B)

\* C37: domain_insertnode started at the roots of two trees in which every
\* node's daughters are 8 nodes of Size / 8 partitioning its interval, over
\* the same root range, never meets an incoming node larger than its local
\* counterpart (the "tree is corrupted" abort of line 1827), and leaves a tree
\* of that form
C37_NoCorruptAbort ==
    (prev # << >> /\ WellFormed(prev[1].A) /\ WellFormed(prev[1].B)) =>
        /\ pc # "endrun_89"
        /\ WellFormed(topNodes)

\* C37 witness: a tree of three levels has been inserted into a root without
\* daughters: the receiving tree now has the import's 17 nodes
C37_Witness ==
    /\ pc = "insert" /\ prev # << >>
    /\ Len(prev[1].A) = 1
    /\ Len(prev[1].B) = 17
    /\ WellFormed(prev[1].A) /\ WellFormed(prev[1].B)
    /\ Len(topNodes) = 17
    /\ At(topNodes, 0).Count > At(prev[1].B, 0).Count

\* the leaf n of tree is over the limits of lines 1586-1587 and can be divided
NeedsDivision(tree, n, lim) ==
    /\ At(tree, n).Daughter < 0
    /\ At(tree, n).Size > 1
    /\ \/ At(tree, n).Count * lim.q > lim.totcount
       \/ At(tree, n).Cost * lim.q > lim.totcost

\* node n had no daughters in the tree before and has them in tree
DividedSince(before, tree, n) ==
    /\ At(tree, n).Daughter >= 0
    /\ (n >= Len(before) \/ At(before, n).Daughter < 0)

\* C34: when the adaptation loop has finished without overflow, every rank
\* returns 0, no node without daughters (one made by the loop included) is
\* above one key cell and over countlimit or costlimit, the nodes of the
\* merged tree are as they were apart from Daughter, and every node the loop
\* has divided has 8 contiguous daughters of Size / 8 that partition its key
\* interval, each with the node's Count / 8 and Cost / 8; when a division
\* that is needed does not fit in MaxTopNodes, every rank returns non-zero
C34_Adaptation ==
    /\ pc = "adapted" =>
          \A lim \in {AdaptLimits(prev[1].A)} :
             /\ \A r \in Ranks : treeRet[r] = 0
             /\ \A n \in 0 .. (Len(topNodes) - 1) :
                   /\ ~NeedsDivision(topNodes, n, lim)
                   /\ n < Len(prev[1].A) =>
                         [At(topNodes, n) EXCEPT !.Daughter = 0]
                            = [At(prev[1].A, n) EXCEPT !.Daughter = 0]
                   /\ DividedSince(prev[1].A, topNodes, n) =>
                         /\ At(topNodes, n).Daughter + 8 <= Len(topNodes)
                         /\ At(topNodes, n).Daughter >= Len(prev[1].A)
                         /\ \A j \in 0 .. 7 :
                              \A d \in {At(topNodes, At(topNodes, n).Daughter + j)} :
                                 /\ d.Size * 8 = At(topNodes, n).Size
                                 /\ d.StartKey = At(topNodes, n).StartKey + j * d.Size
                                 /\ d.Count = At(topNodes, n).Count \div 8
                                 /\ d.Cost * 8 = At(topNodes, n).Cost
                                 /\ d.Parent = n
    /\ pc = "adapt_overflow" =>
          /\ \A r \in Ranks : treeRet[r] # 0
          /\ Len(topNodes) + 8 > MaxTopNodes
          /\ \E n \in 0 .. (Len(topNodes) - 1) :
                NeedsDivision(topNodes, n, AdaptLimits(prev[1].A))

\* C34 witness: the loop has divided a root without daughters that held 12
\* particles, and then each of the 8 daughters it had made, down to the 64
\* key cells
C34_Witness ==
    /\ pc = "adapted"
    /\ Len(prev[1].A) = 1
    /\ At(prev[1].A, 0).Count = 12
    /\ Len(topNodes) = 73
    /\ At(topNodes, 1).Daughter = 9
    /\ At(topNodes, 1).Count = 1
    /\ At(topNodes, 9).Size = 1
    /\ At(topNodes, 9).Count = 0
    /\ At(topNodes, 9).Cost = 12

\* the nodes of tree without daughters
LeavesOf(tree) == {n \in 0 .. (Len(tree) - 1) : At(tree, n).Daughter < 0}

\* key lies in the interval of node n
InNode(tree, n, key) ==
    key >= At(tree, n).StartKey /\ key < At(tree, n).StartKey + At(tree, n).Size

\* C35: in the tree domain_sumCost has walked, every node with daughters has
\* 8 contiguous daughters of Size / 8 that partition its interval; the nodes
\* without daughters carry the ordinals 0 .. NTopleaves - 1, each once, in
\* increasing StartKey; their intervals are pairwise disjoint and every key
\* of [0, PEANOCELLS) lies in one; NTopleaves is their number
C35_TopTreeShape ==
    pc = "summed" =>
        /\ WellFormed(topNodes)
        /\ NTopleaves = Cardinality(LeavesOf(topNodes))
        /\ {At(topNodes, n).Leaf : n \in LeavesOf(topNodes)} = 0 .. (NTopleaves - 1)
        /\ \A a, b \in LeavesOf(topNodes) :
              /\ (At(topNodes, a).StartKey < At(topNodes, b).StartKey)
                    <=> (At(topNodes, a).Leaf < At(topNodes, b).Leaf)
              /\ a # b =>
                    \/ At(topNodes, a).StartKey + At(topNodes, a).Size
                          <= At(topNodes, b).StartKey
                    \/ At(topNodes, b).StartKey + At(topNodes, b).Size
                          <= At(topNodes, a).StartKey
        /\ \A key \in 0 .. (PEANOCELLS - 1) :
              \E n \in LeavesOf(topNodes) : InNode(topNodes, n, key)

\* C35 witness: a walked tree of 25 nodes whose leaves are on two levels: the
\* daughters below the root's last daughter are stored before those below its
\* first, and carry the last 8 of the 22 ordinals
C35_Witness ==
    /\ pc = "summed"
    /\ Len(topNodes) = 25
    /\ NTopleaves = 22
    /\ At(topNodes, 8).Daughter = 9
    /\ At(topNodes, 1).Daughter = 17
    /\ At(topNodes, 9).Leaf = 14
    /\ At(topNodes, 17).Leaf = 0
    /\ At(topNodes, 2).Leaf = 8

\* the particles of all ranks with a key in node n
ParticlesIn(tree, n) ==
    SumAll([r \in Ranks |->
              Cardinality({i \in 1 .. NumPart(r) : InNode(tree, n, P[r][i].Key)})])

\* C36: in the tree domain_sumCost has walked, domain_leafnodefunc returns for
\* every key of [0, PEANOCELLS) the ordinal of the one node without daughters
\* whose interval holds the key; domainCount has NTopleaves entries, the entry
\* of a leaf is the number of particles of all ranks with a key in the leaf's
\* interval, and the entries add up to the number of particles of all ranks
C36_LeafLookup ==
    pc = "summed" =>
        /\ \A key \in 0 .. (PEANOCELLS - 1) :
              /\ Cardinality({n \in LeavesOf(topNodes) : InNode(topNodes, n, key)}) = 1
              /\ \A n \in LeavesOf(topNodes) :
                    InNode(topNodes, n, key)
                       => domain_leafnodefunc(key) = At(topNodes, n).Leaf
        /\ Len(domainCount) = NTopleaves
        /\ \A n \in LeavesOf(topNodes) :
              At(domainCount, At(topNodes, n).Leaf) = ParticlesIn(topNodes, n)
        /\ SumSeq(domainCount) = TotNumPart

\* C36 witness: 4 particles on two ranks with keys in the root's last
\* daughter, which has daughters: the leaves of keys 56, 57 and 63 hold 1, 1
\* and 2 of them
C36_Witness ==
    /\ pc = "summed"
    /\ TotNumPart = 4
    /\ NumPart(1) = 2
    /\ At(topNodes, 8).Daughter >= 0
    /\ At(domainCount, domain_leafnodefunc(56)) = 1
    /\ At(domainCount, domain_leafnodefunc(57)) = 1
    /\ At(domainCount, domain_leafnodefunc(63)) = 2
    /\ domain_leafnodefunc(63) = NTopleaves - 1

\* no entry of the tables tab carries one of the two flags of the exchange
NoFlags(tab) ==
    \A r \in Ranks : \A i \in 1 .. Len(tab[r]) :
        tab[r][i].OnAnotherDomain = 0 /\ tab[r][i].WillExport = 0

\* C38: an exchange that starts with no particle flagged keeps, in every
\* state, WillExport = 1 only on particles that have OnAnotherDomain = 1 and
\* a target rank other than the rank that holds them, and when
\* domain_exchange has returned no particle of any rank, kept or received,
\* has OnAnotherDomain or WillExport set
C38_FlagsCleared ==
    NoFlags(P0) =>
        /\ \A r \in Ranks : \A i \in 1 .. NumPart(r) :
              P[r][i].WillExport = 1 =>
                 /\ P[r][i].OnAnotherDomain = 1
                 /\ domain_layoutfunc(P[r][i]) # r
        /\ ExchangeDone => NoFlags(P)

\* C38 witness: an exchange of two rounds has returned; some rank holds a
\* particle it had at the start and one it has received
C38_Witness ==
    /\ ExchangeDone
    /\ NoFlags(P0)
    /\ iter >= 2
    /\ \E r \in Ranks : \E i, j \in 1 .. NumPart(r) :
          /\ P[r][i].ID \in {P0[r][k].ID : k \in 1 .. Len(P0[r])}
          /\ P[r][j].ID \notin {P0[r][k].ID : k \in 1 .. Len(P0[r])}

\* the temporary buffers of domain_decompose (lines 268-276)
Temporaries == {"domainWork", "domainCount", "topNodes"}

\* C39: when domain_decompose has returned, with 1 after an overflow of the
\* node budget or with 0, none of its temporary buffers is live; every
\* attempt of the loop of domain_Decomposition starts with the live blocks of
\* the first attempt; and domain_free releases in reverse order of
\* allocation: the block it frees first is the block allocated last
C39_NoTemporarySurvives ==
    /\ pc \in {"retry", "done"} => \A i \in 1 .. Len(heap) : heap[i] \notin Temporaries
    /\ pc = "allocate" => heap = << >>
    /\ pc = "retry" => heap[Len(heap)] = "TopNodes"

-----------------------------------------------------------------------------
(* turn_on_quasars and choose_QSO_halo (src/unnamed/part_000)               *)

\* most ranks, most candidates of a rank, most passes of the loop of line 497
MaxQuasarTask == 3
MaxCand == 2
MaxRounds == 2

\* get_random_number returns a double in [0, 1): drand / RandUnit
RandUnit == 4

\* what a rank can read in the ints behind its one-int send buffer
StrayValues == 0 .. MaxCand

\* lines 381: MPI_Alltoall with the one int ncand as send buffer.  Rank j gets
\* from rank i the int at (&ncand)[j] of rank i: for j = 0 that is ncand of
\* rank i, for j > 0 it lies behind the buffer and is any value.
\* stray[<<j, i>>] is what rank j > 0 gets from rank i < j
candcounts(ncand, stray, j, i) == IF j = 0 THEN ncand[i] ELSE stray[<<j, i>>]

\* lines 383-388 on rank r, with the counts it has received
ncand_before(ncand, stray, r) ==
    SumSeq([k \in 1 .. r |-> candcounts(ncand, stray, r, k - 1)])

\* lines 390-399 on rank r: ncand_total is the sum sumup_large_ints returns,
\* qso the truncation of drand * ncand_total
choose_QSO_halo(r, ncand, stray, drand) ==
    LET ncand_total == SumSeq([k \in 1 .. NTask |-> ncand[k - 1]])
        before == ncand_before(ncand, stray, r)
        qso == (drand * ncand_total) \div RandUnit
    IN IF qso < before /\ qso > before + ncand[r] THEN -1 ELSE qso - before

QuasarFrame == <<NTask, P, SphP, BhP, NLocal, TreeVars, exchange_limit, ExchangeVars, P0,
                 DecompVars, ForkVars, threads, MergeVars, gcP, DomainList, segTask, prev>>

\* line 499 on every rank
ChooseQuasar ==
    /\ pc = "need_more"
    /\ \E stray \in [{<<j, i>> : j \in 1 .. (NTask - 1), i \in 0 .. (NTask - 2)} -> StrayValues] :
         quasar' = [quasar EXCEPT
                      !.new_qso = [r \in Ranks |->
                                     choose_QSO_halo(r, quasar.ncand, stray, quasar.drand)]]
    /\ pc' = "chosen"
    /\ UNCHANGED QuasarFrame

\* lines 500-506 and the test of line 497: a rank drops a candidate when
\* new_qso > 0; need_more_quasars decides whether another pass follows
RemoveCandidate ==
    /\ pc = "chosen"
    /\ quasar' = [quasar EXCEPT
                    !.ncand = [r \in Ranks |->
                                 IF quasar.new_qso[r] > 0 THEN quasar.ncand[r] - 1
                                 ELSE quasar.ncand[r]],
                    !.rounds = @ + 1]
    /\ pc' \in (IF quasar.rounds + 1 < MaxRounds THEN {"need_more"} ELSE {}) \cup {"quasars_done"}
    /\ UNCHANGED QuasarFrame

NextQuasar == ChooseQuasar \/ RemoveCandidate

\* after line 495: each rank has its candidates; get_random_number(nqso) will
\* return drand / RandUnit on every rank
InitQuasar ==
    /\ pc = "need_more"
    /\ NTask \in 1 .. MaxQuasarTask
    /\ \E nc \in [RanksOf(NTask) -> 0 .. MaxCand], nq \in 0 .. 1, d \in 0 .. (RandUnit - 1) :
         quasar = [ncand |-> nc, nqso |-> nq, drand |-> d,
                   new_qso |-> [r \in RanksOf(NTask) |-> -1], rounds |-> 0]
    /\ P = [r \in RanksOf(NTask) |-> << >>]
    /\ SphP = P /\ BhP = P /\ P0 = P
    /\ NLocal = [r \in RanksOf(NTask) |-> domain_count_particles(P[r])]
    /\ topNodes = << >> /\ NTopleaves = 0 /\ DomainTask = << >>
    /\ exchange_limit = [r \in RanksOf(NTask) |-> BigLimit]
    /\ toGo = [r \in RanksOf(NTask) |-> Zero(NTask)]
    /\ toGoSph = toGo /\ toGoBh = toGo /\ toGet = toGo /\ toGetSph = toGo /\ toGetBh = toGo
    /\ ret = 0 /\ iter = 0
    /\ DecompIdle /\ heap = << >>
    /\ ForkIdle
    /\ threads = << >>
    /\ mrank = << >> /\ chan = {} /\ contrib = << >> /\ bcastBuf = << >>
    /\ eagerSend = FALSE /\ sendLog = {}
    /\ gcP = << >> /\ DomainList = << >> /\ segTask = << >>
    /\ prev = << >>

SpecQuasar == InitQuasar /\ [][NextQuasar]_vars

\* the candidates on the ranks below r
CandBelow(r) == SumSeq([k \in 1 .. r |-> quasar.ncand[k - 1]])

\* the global index drawn: the truncation of drand * (all candidates)
GlobalQso == (quasar.drand * CandBelow(NTask)) \div RandUnit

\* C40: choose_QSO_halo draws one global index from the random number of nqso
\* and the total number of candidates; it returns -1 on every rank whose
\* range [ncand_before, ncand_before + ncand) does not hold the index, and on
\* the rank that holds it the index within that rank's candidates, a value of
\* [0, ncand); the global index does not depend on how the candidates are
\* spread over the ranks
C40_QuasarChoice ==
    pc = "chosen" =>
        \A r \in Ranks :
            IF GlobalQso >= CandBelow(r) /\ GlobalQso < CandBelow(r) + quasar.ncand[r]
            THEN /\ quasar.new_qso[r] = GlobalQso - CandBelow(r)
                 /\ quasar.new_qso[r] >= 0 /\ quasar.new_qso[r] < quasar.ncand[r]
            ELSE quasar.new_qso[r] = -1

=============================================================================
